---- MODULE Spec2Model ----
(***************************************************************************)
(* Model of the layout-and-routing core of database-structure-analyzer:   *)
(* class SVGDiagramGenerator (src/lib/SVGDiagramGenerator.js) and the      *)
(* DiagramMath helper it uses (src/unnamed/part_001).                      *)
(*                                                                         *)
(* Units.  The maps tablePositions and tableWidths hold pixels, as in the  *)
(* code.  Every point and rectangle is held in HALF pixels (pixel value    *)
(* times 2), because rect.centerX = x + width / 2 and rect.centerY =       *)
(* y + height / 2 are half-integers for odd sizes.  Text widths are        *)
(* computed in TENTHS of a pixel (fontSize * 0.6 per character) and then   *)
(* rounded up to whole pixels as Math.ceil does.                           *)
(***************************************************************************)
EXTENDS Integers, Sequences, FiniteSets, TLC

VARIABLES
    tables,          \* this.tables: the ordered table list (the caller may change it)
    relationships,   \* this.relationships
    options,         \* this.options
    tablePositions,  \* this.tablePositions: Map name -> {x, y}
    tableWidths,     \* this.tableWidths: Map name -> width
    svg,             \* what generate() returned or threw for the current table list
    path,            \* argument of the most recent simplifyPath call
    simplified,      \* its result
    conn,            \* the most recent findBestConnectionPoints call and its result
    routed,          \* the fallback route most recently built between conn's anchors
    astar,           \* the findPathWithAStar call in progress: its locals, then its result
    pathData         \* the most recent createSmoothPath call and the path data it returned

vars == <<tables, relationships, options, tablePositions, tableWidths, svg,
          path, simplified, conn, routed, astar, pathData>>

----------------------------------------------------------------------------
(* Generic helpers *)

Max(a, b) == IF a >= b THEN a ELSE b

Min(a, b) == IF a <= b THEN a ELSE b

Abs(a) == IF a >= 0 THEN a ELSE -a

Range(s) == {s[i] : i \in DOMAIN s}

\* Math.ceil of n / d for n >= 0, d > 0
CeilDiv(n, d) == (n + d - 1) \div d

\* Array.prototype.slice(0, n)
Slice(s, n) == SubSeq(s, 1, Min(Len(s), n))

\* Map.prototype.set
MapSet(m, k, v) == [x \in (DOMAIN m) \cup {k} |-> IF x = k THEN v ELSE m[x]]

\* a new Map()
EmptyMap == [x \in {} |-> 0]

\* the sequence s without its i-th element
RemoveAt(s, i) == [j \in 1..(Len(s) - 1) |-> IF j < i THEN s[j] ELSE s[j + 1]]

\* a pixel value in half pixels
HalfPx(n) == 2 * n

\* `const x = v; F(x)`: v is computed once and F is applied to its value
Bind(v, F(_)) == CHOOSE r \in {F(x) : x \in {v}} : TRUE

----------------------------------------------------------------------------
(* Options: the defaults of the constructor *)

DefaultOptions ==
    [minTableWidth |-> 200, maxTableWidth |-> 400, tableHeaderHeight |-> 35,
     columnHeight |-> 22, tablePadding |-> 60, canvasMargin |-> 100,
     connectionMargin |-> 25, collisionBuffer |-> 25, visualBuffer |-> 50,
     safeZoneOffset |-> 40, routingSpacingTop |-> 60, routingSpacingSide |-> 40,
     fontSize |-> 12, headerFontSize |-> 14, maxColumns |-> 15,
     showDataTypes |-> TRUE, showConstraints |-> TRUE, textPadding |-> 24,
     debugPaths |-> FALSE]

\* { ...defaults, ...options } for the three flags the callers set
WithFlags(types, constraints, debug) ==
    [DefaultOptions EXCEPT !.showDataTypes = types, !.showConstraints = constraints,
                           !.debugPaths = debug]

----------------------------------------------------------------------------
(* Text measurement *)

\* DiagramMath.estimateTextWidth, in tenths of a pixel:
\* text.length * (fontSize * 0.6)
estimateTextWidth(text, fontSize) == Len(text) * fontSize * 6

LowerCase == "abcdefghijklmnopqrstuvwxyz"

UpperCase == "ABCDEFGHIJKLMNOPQRSTUVWXYZ"

\* String.prototype.toUpperCase on one character
upperChar(c) ==
    IF \E i \in 1..Len(LowerCase) : SubSeq(LowerCase, i, i) = c
    THEN LET i == CHOOSE j \in 1..Len(LowerCase) : SubSeq(LowerCase, j, j) = c
         IN  SubSeq(UpperCase, i, i)
    ELSE c

RECURSIVE toUpperCase(_)
toUpperCase(s) ==
    IF Len(s) = 0 THEN ""
    ELSE upperChar(SubSeq(s, 1, 1)) \o toUpperCase(SubSeq(s, 2, Len(s)))

\* index of the first occurrence of word w in s, 0 when there is none
IndexOf(s, w) ==
    LET hits == {i \in 1..(Len(s) - Len(w) + 1) : SubSeq(s, i, i + Len(w) - 1) = w}
    IN  IF hits = {} THEN 0 ELSE CHOOSE i \in hits : \A j \in hits : i <= j

\* s.replace(/W.*/, 'W'): everything after the first W is cut
CutAfter(s, w) ==
    LET i == IndexOf(s, w)
    IN  IF i = 0 THEN s ELSE SubSeq(s, 1, i + Len(w) - 1)

\* simplifyDataType: the VARCHAR(n) and DECIMAL(p,s) replacements only rewrite
\* the keyword in upper case, which toUpperCase does to the whole text anyway
simplifyDataType(type) ==
    LET cut == toUpperCase(CutAfter(CutAfter(type, "TIMESTAMP"), "DATETIME"))
    IN  SubSeq(cut, 1, Min(Len(cut), 15))

\* the key and link glyphs are two UTF-16 code units each, followed by a space
pkPrefix == "## "

fkPrefix == "@@ "

isPK(table, column) == column.name \in table.primaryKeys

isFK(table, column) == \E i \in DOMAIN table.foreignKeys : table.foreignKeys[i].column = column.name

\* the text of one column line (calculateTableWidths and drawTable build the same)
fullColumnText(table, column, opts) ==
    LET prefix == IF isPK(table, column) THEN pkPrefix
                  ELSE IF isFK(table, column) THEN fkPrefix ELSE ""
        displayType == IF opts.showDataTypes
                       THEN " : " \o simplifyDataType(column.type) ELSE ""
        nullability == IF opts.showConstraints /\ ~column.allowNull
                       THEN " NOT NULL" ELSE ""
    IN  prefix \o column.name \o displayType \o nullability

\* table.displayName || table.fullName || table.name ("" stands for undefined)
displayNameOf(table) ==
    IF table.displayName # "" THEN table.displayName
    ELSE IF table.fullName # "" THEN table.fullName ELSE table.name

\* `... and ${remaining} more columns`
moreText(remaining) == "... and " \o ToString(remaining) \o " more columns"

----------------------------------------------------------------------------
(* Table sizing *)

\* the widest of the visible column lines and the running maximum, in tenths
RECURSIVE columnsMaxWidth(_, _, _, _, _)
columnsMaxWidth(table, visibleColumns, i, opts, maxWidth) ==
    IF i > Len(visibleColumns) THEN maxWidth
    ELSE LET columnWidth == estimateTextWidth(fullColumnText(table, visibleColumns[i], opts),
                                              opts.fontSize) + 10 * opts.textPadding
         IN  Bind(Max(maxWidth, columnWidth),
                  LAMBDA wider : columnsMaxWidth(table, visibleColumns, i + 1, opts, wider))

\* variant of computeTableWidth without the Math.min(maxWidth, maxTableWidth) clamp
computeTableWidthUnclamped(table, opts) ==
    LET titleWidth == estimateTextWidth(displayNameOf(table), opts.headerFontSize)
                      + 10 * opts.textPadding
        afterTitle == Max(10 * opts.minTableWidth, titleWidth)
        afterColumns == columnsMaxWidth(table, Slice(table.columns, opts.maxColumns), 1,
                                        opts, afterTitle)
        afterMore ==
            IF Len(table.columns) > opts.maxColumns
            THEN Max(afterColumns,
                     estimateTextWidth(moreText(Len(table.columns) - opts.maxColumns),
                                       opts.fontSize) + 10 * opts.textPadding)
            ELSE afterColumns
    IN  CeilDiv(Max(afterMore, 10 * opts.minTableWidth), 10)

\* the body of the loop of calculateTableWidths: the width stored for one table
computeTableWidth(table, opts) ==
    LET titleWidth == estimateTextWidth(displayNameOf(table), opts.headerFontSize)
                      + 10 * opts.textPadding
        afterTitle == Max(10 * opts.minTableWidth, titleWidth)
        moreWidth == estimateTextWidth(moreText(Len(table.columns) - opts.maxColumns),
                                       opts.fontSize) + 10 * opts.textPadding
        afterMore(afterColumns) ==
            IF Len(table.columns) > opts.maxColumns
            THEN Max(afterColumns, moreWidth)
            ELSE afterColumns
        limited(afterColumns) ==
            Max(Min(afterMore(afterColumns), 10 * opts.maxTableWidth), 10 * opts.minTableWidth)
    IN  Bind(columnsMaxWidth(table, Slice(table.columns, opts.maxColumns), 1, opts, afterTitle),
             LAMBDA afterColumns : CeilDiv(limited(afterColumns), 10))

\* calculateTableWidths: one tableWidths.set per table, in input order
RECURSIVE calculateTableWidths(_, _, _, _)
calculateTableWidths(tbls, i, opts, widths) ==
    IF i > Len(tbls) THEN widths
    ELSE Bind(MapSet(widths, tbls[i].name, computeTableWidth(tbls[i], opts)),
              LAMBDA stored : calculateTableWidths(tbls, i + 1, opts, stored))

\* getTableWidth: this.tableWidths.get(table.name) || this.options.minTableWidth
getTableWidth(table, opts, widths) ==
    IF table.name \in DOMAIN widths /\ widths[table.name] # 0
    THEN widths[table.name] ELSE opts.minTableWidth

\* variant of getTableHeight without the row of the "... and N more columns" line
getTableHeightNoExtra(table, opts) ==
    opts.tableHeaderHeight + (Min(Len(table.columns), opts.maxColumns) * opts.columnHeight) + 15

\* getTableHeight
getTableHeight(table, opts) ==
    LET visibleColumns == Min(Len(table.columns), opts.maxColumns)
        extraHeight == IF Len(table.columns) > opts.maxColumns THEN opts.columnHeight ELSE 0
    IN  opts.tableHeaderHeight + (visibleColumns * opts.columnHeight) + extraHeight + 15

----------------------------------------------------------------------------
(* Grid placement *)

\* variant of gridCols without the factor 1.2: Math.ceil(Math.sqrt(n))
gridColsSquare(n) == CHOOSE c \in 0..(n + 1) : c * c >= n /\ \A d \in 0..(c - 1) : d * d < n

\* Math.ceil(Math.sqrt(n * 1.2)): the least c with c * c >= 1.2 * n
gridCols(n) == CHOOSE c \in 0..(n + 1) : 5 * c * c >= 6 * n /\ \A d \in 0..(c - 1) : 5 * d * d < 6 * n

\* variant of placeFrom that advances x by the greatest width seen in the row
RECURSIVE placeFromWidest(_, _, _, _, _, _, _)
placeFromWidest(tbls, i, cols, opts, widths, st, positions) ==
    IF i > Len(tbls) THEN positions
    ELSE LET table == tbls[i]
             maxHeightInRow == Max(st.maxHeightInRow, getTableHeight(table, opts))
             maxWidthInRow == Max(st.maxWidthInRow, getTableWidth(table, opts, widths))
             placed == MapSet(positions, table.name, [x |-> st.x, y |-> st.y])
             next == IF st.currentCol + 1 >= cols
                     THEN [x |-> opts.tablePadding + opts.canvasMargin,
                           y |-> st.y + maxHeightInRow + opts.tablePadding,
                           currentCol |-> 0, maxHeightInRow |-> 0, maxWidthInRow |-> 0]
                     ELSE [x |-> st.x + maxWidthInRow + opts.tablePadding,
                           y |-> st.y,
                           currentCol |-> st.currentCol + 1,
                           maxHeightInRow |-> maxHeightInRow,
                           maxWidthInRow |-> maxWidthInRow]
         IN  placeFromWidest(tbls, i + 1, cols, opts, widths, next, placed)

\* variant of placeFrom that starts the next row below the last table of the row
RECURSIVE placeFromLastHeight(_, _, _, _, _, _, _)
placeFromLastHeight(tbls, i, cols, opts, widths, st, positions) ==
    IF i > Len(tbls) THEN positions
    ELSE LET table == tbls[i]
             placed == MapSet(positions, table.name, [x |-> st.x, y |-> st.y])
             next == IF st.currentCol + 1 >= cols
                     THEN [x |-> opts.tablePadding + opts.canvasMargin,
                           y |-> st.y + getTableHeight(table, opts) + opts.tablePadding,
                           currentCol |-> 0, maxHeightInRow |-> 0, maxWidthInRow |-> 0]
                     ELSE [x |-> st.x + getTableWidth(table, opts, widths) + opts.tablePadding,
                           y |-> st.y,
                           currentCol |-> st.currentCol + 1,
                           maxHeightInRow |-> 0, maxWidthInRow |-> 0]
         IN  placeFromLastHeight(tbls, i + 1, cols, opts, widths, next, placed)

\* the loop of calculatePositions from table i on; st holds the loop variables
RECURSIVE placeFrom(_, _, _, _, _, _, _)
placeFrom(tbls, i, cols, opts, widths, st, positions) ==
    IF i > Len(tbls) THEN positions
    ELSE LET table == tbls[i]
             tableHeight == getTableHeight(table, opts)
             tableWidth == getTableWidth(table, opts, widths)
             maxHeightInRow == Max(st.maxHeightInRow, tableHeight)
             maxWidthInRow == Max(st.maxWidthInRow, tableWidth)
             placed == MapSet(positions, table.name, [x |-> st.x, y |-> st.y])
             currentCol == st.currentCol + 1
             next == IF currentCol >= cols
                     THEN [x |-> opts.tablePadding + opts.canvasMargin,
                           y |-> st.y + maxHeightInRow + opts.tablePadding,
                           currentCol |-> 0, maxHeightInRow |-> 0, maxWidthInRow |-> 0]
                     ELSE [x |-> st.x + tableWidth + opts.tablePadding,
                           y |-> st.y,
                           currentCol |-> currentCol, maxHeightInRow |-> maxHeightInRow,
                           maxWidthInRow |-> maxWidthInRow]
         IN  Bind(next, LAMBDA advanced :
                  Bind(placed, LAMBDA stored :
                       placeFrom(tbls, i + 1, cols, opts, widths, advanced, stored)))

\* calculatePositions
calculatePositions(tbls, opts, widths, positions) ==
    placeFrom(tbls, 1, gridCols(Len(tbls)), opts, widths,
              [x |-> opts.tablePadding + opts.canvasMargin,
               y |-> opts.tablePadding + opts.canvasMargin + 80,
               currentCol |-> 0, maxHeightInRow |-> 0, maxWidthInRow |-> 0],
              positions)

\* this.tables.find(t => t.name === tableName): does it find a table
hasTableNamed(tbls, tableName) == \E i \in DOMAIN tbls : tbls[i].name = tableName

\* ... and the first table it finds
tableNamed(tbls, tableName) ==
    tbls[CHOOSE i \in DOMAIN tbls : tbls[i].name = tableName
                                     /\ \A j \in 1..(i - 1) : tbls[j].name # tableName]

\* variant of calculateCanvasBounds that always uses its default extent
calculateCanvasBoundsDefault(tbls, opts, widths, positions) ==
    [throws |-> \E n \in DOMAIN positions : ~hasTableNamed(tbls, n),
     width |-> 800 + opts.canvasMargin,
     height |-> 600 + opts.canvasMargin]

\* calculateCanvasBounds, in pixels.  For an entry of tablePositions that names no
\* table of this.tables, find() gives undefined and getTableHeight(undefined)
\* throws a TypeError.
calculateCanvasBounds(tbls, opts, widths, positions) ==
    IF \E n \in DOMAIN positions : ~hasTableNamed(tbls, n)
    THEN [throws |-> TRUE, width |-> 0, height |-> 0]
    ELSE LET rights == {positions[n].x + getTableWidth(tableNamed(tbls, n), opts, widths) :
                          n \in DOMAIN positions}
             bottoms == {positions[n].y + getTableHeight(tableNamed(tbls, n), opts) :
                          n \in DOMAIN positions}
             maxX == IF rights = {} THEN 0 ELSE CHOOSE v \in rights : \A w \in rights : w <= v
             maxY == IF bottoms = {} THEN 0 ELSE CHOOSE v \in bottoms : \A w \in bottoms : w <= v
         IN  [throws |-> FALSE,
              width |-> (IF maxX = 0 THEN 800 ELSE maxX) + opts.canvasMargin,
              height |-> (IF maxY = 0 THEN 600 ELSE maxY) + opts.canvasMargin]

NoRect == [none |-> TRUE]

\* getTableRect, in half pixels; NoRect is null
getTableRect(table, opts, widths, positions) ==
    IF table.name \notin DOMAIN positions THEN NoRect
    ELSE LET pos == positions[table.name]
             width == getTableWidth(table, opts, widths)
             height == getTableHeight(table, opts)
         IN  [x |-> HalfPx(pos.x), y |-> HalfPx(pos.y),
              width |-> HalfPx(width), height |-> HalfPx(height),
              right |-> HalfPx(pos.x + width), bottom |-> HalfPx(pos.y + height),
              centerX |-> HalfPx(pos.x) + width, centerY |-> HalfPx(pos.y) + height]

----------------------------------------------------------------------------
(* Connection point resolution *)

\* index of columnName among the visible columns, 0 for findIndex's -1
columnIndexOf(visibleColumns, columnName) ==
    LET hits == {i \in DOMAIN visibleColumns : visibleColumns[i].name = columnName}
    IN  IF hits = {} THEN 0 ELSE CHOOSE i \in hits : \A j \in hits : i <= j

\* variant of getColumnYPosition that anchors every column at the table's centre
getColumnYPositionCentred(table, columnName, opts, widths, positions) ==
    LET rect == getTableRect(table, opts, widths, positions)
    IN  IF rect = NoRect THEN 0 ELSE rect.centerY

\* variant of getColumnYPosition that looks the column up among all columns
getColumnYPositionAnyColumn(table, columnName, opts, widths, positions) ==
    LET rect == getTableRect(table, opts, widths, positions)
        columnIndex == columnIndexOf(table.columns, columnName)
    IN  IF rect = NoRect THEN 0
        ELSE IF columnIndex = 0 THEN rect.centerY
        ELSE rect.y + HalfPx(opts.tableHeaderHeight)
             + HalfPx((columnIndex - 1) * opts.columnHeight)
             + opts.columnHeight
             + HalfPx(9)

\* getColumnYPosition, in half pixels
getColumnYPosition(table, columnName, opts, widths, positions) ==
    LET rect == getTableRect(table, opts, widths, positions)
        columnIndex == columnIndexOf(Slice(table.columns, opts.maxColumns), columnName)
    IN  IF rect = NoRect THEN 0
        ELSE IF columnIndex = 0 THEN rect.centerY
        ELSE rect.y + HalfPx(opts.tableHeaderHeight)
             + HalfPx((columnIndex - 1) * opts.columnHeight)
             + opts.columnHeight
             + HalfPx(9)

\* Object.entries(fromPoints) / Object.entries(toPoints): the key order
Sides == <<"right", "left", "top", "bottom">>

\* the candidate anchor of one side: fromPoints[side] / toPoints[side]
sidePoint(rect, side, columnY, opts) ==
    CASE side = "right" -> [x |-> rect.right + HalfPx(opts.connectionMargin), y |-> columnY]
      [] side = "left" -> [x |-> rect.x - HalfPx(opts.connectionMargin), y |-> columnY]
      [] side = "top" -> [x |-> rect.centerX, y |-> rect.y - HalfPx(opts.connectionMargin)]
      [] OTHER -> [x |-> rect.centerX, y |-> rect.bottom + HalfPx(opts.connectionMargin)]

\* variant of sideWeight that favours the pair (right, left) only
sideWeightOneWay(fromSide, toSide) ==
    IF fromSide = "right" /\ toSide = "left" THEN 3
    ELSE IF fromSide \in {"left", "right"} \/ toSide \in {"left", "right"} THEN 4 ELSE 5

\* the weight of a side pair, times 5: 0.6, 0.8 or 1
sideWeight(fromSide, toSide) ==
    IF (fromSide = "right" /\ toSide = "left") \/ (fromSide = "left" /\ toSide = "right")
    THEN 3
    ELSE IF fromSide \in {"left", "right"} \/ toSide \in {"left", "right"} THEN 4 ELSE 5

\* DiagramMath.distance, squared
distanceSq(p1, p2) == (p2.x - p1.x) * (p2.x - p1.x) + (p2.y - p1.y) * (p2.y - p1.y)

\* variant of scoreSq that compares the distances alone
scoreSqUnweighted(fromSide, toSide, fromPoint, toPoint) ==
    25 * distanceSq(fromPoint, toPoint)

\* weight * distance is compared through its square: a < b iff a * a < b * b
scoreSq(fromSide, toSide, fromPoint, toPoint) ==
    sideWeight(fromSide, toSide) * sideWeight(fromSide, toSide) * distanceSq(fromPoint, toPoint)

\* the k-th pair of the nested loops, the source side varying slowest
loopFromSide(k) == Sides[((k - 1) \div 4) + 1]

loopToSide(k) == Sides[((k - 1) % 4) + 1]

\* variant of bestPairIndex that keeps the last pair of minimal score
bestPairIndexLast(fromRect, toRect, fromColumnY, toColumnY, opts) ==
    Bind([k \in 1..16 |->
             scoreSq(loopFromSide(k), loopToSide(k),
                     sidePoint(fromRect, loopFromSide(k), fromColumnY, opts),
                     sidePoint(toRect, loopToSide(k), toColumnY, opts))],
         LAMBDA score : CHOOSE k \in 1..16 : /\ \A j \in 1..16 : score[k] <= score[j]
                                             /\ \A j \in (k + 1)..16 : score[j] > score[k])

\* the pair the loops keep: `weight < bestDistance` replaces the best only by a
\* strictly smaller score, so the first pair of minimal score is kept
bestPairIndex(fromRect, toRect, fromColumnY, toColumnY, opts) ==
    Bind([k \in 1..16 |->
             scoreSq(loopFromSide(k), loopToSide(k),
                     sidePoint(fromRect, loopFromSide(k), fromColumnY, opts),
                     sidePoint(toRect, loopToSide(k), toColumnY, opts))],
         LAMBDA score : CHOOSE k \in 1..16 : /\ \A j \in 1..16 : score[k] <= score[j]
                                             /\ \A j \in 1..(k - 1) : score[j] > score[k])

\* the point stored as tableStart / tableEnd
tableEdgePoint(rect, side, columnY) ==
    [x |-> IF side = "right" THEN rect.right ELSE IF side = "left" THEN rect.x ELSE rect.centerX,
     y |-> columnY]

\* the connection record built for the k-th pair
connectionOf(k, fromRect, toRect, fromColumnY, toColumnY, opts) ==
    [start |-> sidePoint(fromRect, loopFromSide(k), fromColumnY, opts),
     end |-> sidePoint(toRect, loopToSide(k), toColumnY, opts),
     fromSide |-> loopFromSide(k),
     toSide |-> loopToSide(k),
     tableStart |-> tableEdgePoint(fromRect, loopFromSide(k), fromColumnY),
     tableEnd |-> tableEdgePoint(toRect, loopToSide(k), toColumnY)]

\* findBestConnectionPoints
findBestConnectionPoints(fromRect, toRect, fromColumn, toColumn, fromTable, toTable, opts, widths, positions) ==
    Bind(getColumnYPosition(fromTable, fromColumn, opts, widths, positions),
         LAMBDA fromColumnY :
    Bind(getColumnYPosition(toTable, toColumn, opts, widths, positions),
         LAMBDA toColumnY :
    Bind(bestPairIndex(fromRect, toRect, fromColumnY, toColumnY, opts),
         LAMBDA k : connectionOf(k, fromRect, toRect, fromColumnY, toColumnY, opts))))

----------------------------------------------------------------------------
(* Routing *)

\* linesIntersectSimple
ccw(A, B, C) == (C.y - A.y) * (B.x - A.x) > (B.y - A.y) * (C.x - A.x)

linesIntersectSimple(line1Start, line1End, line2Start, line2End) ==
    /\ ccw(line1Start, line2Start, line2End) # ccw(line1End, line2Start, line2End)
    /\ ccw(line1Start, line1End, line2Start) # ccw(line1Start, line1End, line2End)

\* lineIntersectsBox
lineIntersectsBox(start, end, box) ==
    IF \/ (start.x < box.x /\ end.x < box.x)
       \/ (start.x > box.right /\ end.x > box.right)
       \/ (start.y < box.y /\ end.y < box.y)
       \/ (start.y > box.bottom /\ end.y > box.bottom)
    THEN FALSE
    ELSE IF \/ (start.x >= box.x /\ start.x <= box.right /\ start.y >= box.y /\ start.y <= box.bottom)
            \/ (end.x >= box.x /\ end.x <= box.right /\ end.y >= box.y /\ end.y <= box.bottom)
    THEN TRUE
    ELSE LET edges == <<[start |-> [x |-> box.x, y |-> box.y], end |-> [x |-> box.right, y |-> box.y]],
                        [start |-> [x |-> box.right, y |-> box.y], end |-> [x |-> box.right, y |-> box.bottom]],
                        [start |-> [x |-> box.right, y |-> box.bottom], end |-> [x |-> box.x, y |-> box.bottom]],
                        [start |-> [x |-> box.x, y |-> box.bottom], end |-> [x |-> box.x, y |-> box.y]]>>
         IN  \E i \in DOMAIN edges : linesIntersectSimple(start, end, edges[i].start, edges[i].end)

\* the rectangle expanded by collisionBuffer + visualBuffer on every side
expandedRect(rect, opts) ==
    LET totalBuffer == HalfPx(opts.collisionBuffer + opts.visualBuffer)
    IN  [x |-> rect.x - totalBuffer, y |-> rect.y - totalBuffer,
         right |-> rect.right + totalBuffer, bottom |-> rect.bottom + totalBuffer]

\* lineIntersectsRectSimple
lineIntersectsRectSimple(start, end, rect, opts) ==
    lineIntersectsBox(start, end, expandedRect(rect, opts))

\* the obstacles of isRouteClear: the indices of all tables except the source and
\* the destination (tables are compared by identity) that have a rectangle
obstacleIndices(tbls, fromIdx, toIdx, opts, widths, positions) ==
    {i \in DOMAIN tbls : /\ i # fromIdx
                         /\ i # toIdx
                         /\ getTableRect(tbls[i], opts, widths, positions) # NoRect}

\* isRouteClear
isRouteClear(waypoints, fromIdx, toIdx, tbls, opts, widths, positions) ==
    \A i \in 1..(Len(waypoints) - 1) :
        \A o \in obstacleIndices(tbls, fromIdx, toIdx, opts, widths, positions) :
            ~lineIntersectsRectSimple(waypoints[i], waypoints[i + 1],
                                      getTableRect(tbls[o], opts, widths, positions), opts)

\* variant of createMarginRoute that always detours through the top band
createMarginRouteTop(start, end, bounds, opts) ==
    LET topY == HalfPx(opts.canvasMargin - opts.safeZoneOffset + opts.routingSpacingTop)
    IN  <<start, [x |-> start.x, y |-> topY], [x |-> end.x, y |-> topY], end>>

\* createMarginRoute; bounds are in pixels, points in half pixels, so that
\* start.x < bounds.width / 2 reads start.x < bounds.width
createMarginRoute(start, end, bounds, opts) ==
    LET safeZone == opts.canvasMargin - opts.safeZoneOffset
        startLeft == start.x < bounds.width
        endLeft == end.x < bounds.width
        startTop == start.y < bounds.height
        endTop == end.y < bounds.height
        routeY == IF startTop THEN HalfPx(safeZone + opts.routingSpacingTop)
                  ELSE HalfPx(bounds.height - safeZone - opts.routingSpacingTop)
        routeX == IF startLeft THEN HalfPx(safeZone + opts.routingSpacingSide)
                  ELSE HalfPx(bounds.width - safeZone - opts.routingSpacingSide)
        topY == HalfPx(safeZone + opts.routingSpacingTop)
    IN  IF (startLeft /\ ~endLeft) \/ (~startLeft /\ endLeft)
        THEN <<start, [x |-> start.x, y |-> routeY], [x |-> end.x, y |-> routeY], end>>
        ELSE IF (startTop /\ ~endTop) \/ (~startTop /\ endTop)
        THEN <<start, [x |-> routeX, y |-> start.y], [x |-> routeX, y |-> end.y], end>>
        ELSE <<start, [x |-> start.x, y |-> topY], [x |-> end.x, y |-> topY], end>>

\* variant of simpleRoutes that joins the anchors by a straight line
simpleRoutesStraight(start, end) == <<<<start, end>>, <<start, end>>>>

\* the two L-shaped routes of createSimpleRoute, in the order they are tried
simpleRoutes(start, end) ==
    <<<<start, [x |-> end.x, y |-> start.y], end>>,
      <<start, [x |-> start.x, y |-> end.y], end>>>>

\* createSimpleRoute: the first clear L-route, else the margin route as it is
createSimpleRoute(start, end, fromIdx, toIdx, tbls, opts, widths, positions) ==
    LET routes == simpleRoutes(start, end)
    IN  IF isRouteClear(routes[1], fromIdx, toIdx, tbls, opts, widths, positions)
        THEN routes[1]
        ELSE IF isRouteClear(routes[2], fromIdx, toIdx, tbls, opts, widths, positions)
        THEN routes[2]
        ELSE createMarginRoute(start, end,
                               calculateCanvasBounds(tbls, opts, widths, positions), opts)

\* generateSmartPath (both rectangles exist when drawRelationship calls it)
generateSmartPath(fromIdx, toIdx, fromColumn, toColumn, tbls, opts, widths, positions) ==
    LET fromRect == getTableRect(tbls[fromIdx], opts, widths, positions)
        toRect == getTableRect(tbls[toIdx], opts, widths, positions)
    IN  Bind(findBestConnectionPoints(fromRect, toRect, fromColumn, toColumn,
                                      tbls[fromIdx], tbls[toIdx], opts, widths, positions),
             LAMBDA connectionPoints :
                 createSimpleRoute(connectionPoints.start, connectionPoints.end,
                                   fromIdx, toIdx, tbls, opts, widths, positions))

\* createSafePerimeterPath: up from the start to y = 160, along that line to
\* 80 px inside the right canvas edge, down to the end's height, then to the
\* end; it throws when calculateCanvasBounds does
createSafePerimeterPath(start, end, tbls, opts, widths, positions) ==
    LET bounds == calculateCanvasBounds(tbls, opts, widths, positions)
        safeMargin == 80
    IN  IF bounds.throws THEN [kind |-> "throw"]
        ELSE [kind |-> "route",
              points |-> <<start,
                           [x |-> start.x, y |-> HalfPx(safeMargin + 80)],
                           [x |-> HalfPx(bounds.width - safeMargin),
                            y |-> HalfPx(safeMargin + 80)],
                           [x |-> HalfPx(bounds.width - safeMargin), y |-> end.y],
                           end>>]

----------------------------------------------------------------------------
(* Drawing *)

\* the methods class SVGDiagramGenerator defines; calling any other name on
\* `this` throws a TypeError (`this.x is not a function`)
ClassMethods ==
    {"getColorScheme", "calculateTableWidths", "getTableWidth", "generateToFile",
     "generate", "generateEmptyDiagram", "generateSVGHeader", "calculatePositions",
     "calculateCanvasBounds", "getTableHeight", "drawTable", "isColumnReferenced",
     "simplifyDataType", "drawRelationship", "truncateConstraintName",
     "generateSmartPath", "createSimpleRoute", "isRouteClear",
     "lineIntersectsRectSimple", "lineIntersectsBox", "linesIntersectSimple",
     "createMarginRoute", "isDirectPathClear", "lineIntersectsRectangle",
     "linesIntersect", "createManhattanPath", "tryHorizontalFirst", "tryVerticalFirst",
     "tryPerimeterRouting", "tryCornerRouting", "validatePath", "calculatePathLength",
     "createSafePerimeterPath", "getTableRect", "findBestConnectionPoints",
     "getColumnYPosition", "isPathClear", "lineIntersectsRect", "routeAroundObstacles",
     "findPathWithAStar", "heuristic", "reconstructPath", "simplifyPath",
     "fallbackSimpleRoute", "createSmoothPath", "generateDebugVisualization",
     "distance", "drawTitle", "drawLegend"}

\* generateDebugVisualization: after the four safe-zone bands it calls
\* this.getObstacles(fromTable, toTable) to draw the buffer zones
generateDebugVisualization(fromIdx, toIdx, tbls, opts, widths, positions) ==
    IF "getObstacles" \in ClassMethods
    THEN [throws |-> FALSE,
          zones |-> obstacleIndices(tbls, fromIdx, toIdx, opts, widths, positions)]
    ELSE [throws |-> TRUE, zones |-> {}]

\* tableName.includes('.') ? tableName.split('.').pop() : tableName
simpleNameOf(tableName) ==
    LET dots == {i \in 1..Len(tableName) : SubSeq(tableName, i, i) = "."}
        last == IF dots = {} THEN 0 ELSE CHOOSE i \in dots : \A j \in dots : j <= i
    IN  SubSeq(tableName, last + 1, Len(tableName))

\* findTable of drawRelationship: the index of the first table that matches,
\* 0 for undefined
findTable(tbls, tableName) ==
    LET hits == {i \in DOMAIN tbls : \/ tbls[i].name = simpleNameOf(tableName)
                                     \/ tbls[i].displayName = tableName
                                     \/ tbls[i].fullName = tableName}
    IN  IF hits = {} THEN 0 ELSE CHOOSE i \in hits : \A j \in hits : i <= j

\* the `table not found` comment drawRelationship returns
NotFound(relationship) ==
    [kind |-> "notfound", fromTable |-> relationship.fromTable, toTable |-> relationship.toTable]

Thrown == [kind |-> "throw", error |-> "TypeError"]

\* variant of drawRelationship that fails on a relationship it cannot resolve
drawRelationshipStrict(relationship, tbls, opts, widths, positions) ==
    IF findTable(tbls, relationship.fromTable) = 0 \/ findTable(tbls, relationship.toTable) = 0
    THEN Thrown
    ELSE [kind |-> "blank"]

\* drawRelationship: what it returns, Thrown when it throws
drawRelationship(relationship, tbls, opts, widths, positions) ==
    LET fromIdx == findTable(tbls, relationship.fromTable)
        toIdx == findTable(tbls, relationship.toTable)
        fromRect == getTableRect(tbls[fromIdx], opts, widths, positions)
        toRect == getTableRect(tbls[toIdx], opts, widths, positions)
        debug == IF opts.debugPaths
                 THEN generateDebugVisualization(fromIdx, toIdx, tbls, opts, widths, positions)
                 ELSE [throws |-> FALSE, zones |-> {}]
        drawn(connectionPoints, routingPath) ==
            IF debug.throws THEN Thrown
            ELSE [kind |-> "path",
                  fromTable |-> relationship.fromTable,
                  toTable |-> relationship.toTable,
                  fromSide |-> connectionPoints.fromSide,
                  toSide |-> connectionPoints.toSide,
                  route |-> routingPath,
                  completePath |-> <<connectionPoints.tableStart>> \o routingPath
                                   \o <<connectionPoints.tableEnd>>,
                  tableStartPoint |-> connectionPoints.tableStart,
                  tableEndPoint |-> connectionPoints.tableEnd,
                  midPoint |-> routingPath[(Len(routingPath) \div 2) + 1],
                  debugMarkers |-> IF opts.debugPaths THEN Len(routingPath) ELSE 0,
                  debugZones |-> debug.zones]
    IN  IF fromIdx = 0 \/ toIdx = 0 THEN NotFound(relationship)
        ELSE IF fromRect = NoRect \/ toRect = NoRect THEN [kind |-> "blank"]
        ELSE Bind(findBestConnectionPoints(fromRect, toRect,
                                           relationship.fromColumn, relationship.toColumn,
                                           tbls[fromIdx], tbls[toIdx], opts, widths, positions),
                  LAMBDA connectionPoints :
             Bind(generateSmartPath(fromIdx, toIdx, relationship.fromColumn,
                                    relationship.toColumn, tbls, opts, widths, positions),
                  LAMBDA routingPath : drawn(connectionPoints, routingPath)))

\* a drawRelationship that moves every table one pixel to the right
drawRelationshipMoving(relationship, tbls, opts, widths, positions) ==
    [drawn |-> drawRelationship(relationship, tbls, opts, widths, positions),
     tableWidths |-> widths,
     tablePositions |-> [name \in DOMAIN positions |->
                            [x |-> positions[name].x + 1, y |-> positions[name].y]]]

\* one call of drawRelationship: what it returns and the two maps as it leaves
\* them.  Neither it nor anything it calls writes to this.tableWidths,
\* this.tablePositions or a table: the only writes are in
\* calculateTableWidths and calculatePositions.
drawRelationshipCall(relationship, tbls, opts, widths, positions) ==
    [drawn |-> drawRelationship(relationship, tbls, opts, widths, positions),
     tableWidths |-> widths,
     tablePositions |-> positions]

\* drawTable: the rectangle and the rows it draws, in pixels
drawTable(table, opts, widths, positions) ==
    [name |-> table.name,
     x |-> positions[table.name].x,
     y |-> positions[table.name].y,
     width |-> getTableWidth(table, opts, widths),
     height |-> getTableHeight(table, opts),
     rows |-> Len(Slice(table.columns, opts.maxColumns)),
     hasMore |-> Len(table.columns) > opts.maxColumns]

\* generateEmptyDiagram
generateEmptyDiagram ==
    [kind |-> "empty", width |-> 600, height |-> 400,
     message |-> "No tables found in database"]

\* variant of documentOf that puts the tables before the relationships
documentTablesFirst(drawn, drawnTables) ==
    [k \in 1..(Len(drawnTables) + Len(drawn)) |->
        IF k <= Len(drawnTables)
        THEN [element |-> "table", drawn |-> drawnTables[k]]
        ELSE [element |-> "relationship", drawn |-> drawn[k - Len(drawnTables)]]]

\* the draw instructions in the order generate appends them to the document:
\* the loop over this.relationships, then the loop over this.tables
documentOf(drawn, drawnTables) ==
    [k \in 1..(Len(drawn) + Len(drawnTables)) |->
        IF k <= Len(drawn)
        THEN [element |-> "relationship", drawn |-> drawn[k]]
        ELSE [element |-> "table", drawn |-> drawnTables[k - Len(drawn)]]]

\* generate from its sizing pass on: what it returns or throws, and the two
\* maps as it leaves them
generateLayout(tbls, rels, opts, widths, positions) ==
    LET result(newWidths, newPositions) ==
            LET bounds == calculateCanvasBounds(tbls, opts, newWidths, newPositions)
            IN  IF bounds.throws THEN Thrown
                ELSE Bind([i \in DOMAIN rels |->
                              drawRelationship(rels[i], tbls, opts, newWidths, newPositions)],
                          LAMBDA drawn :
                              IF \E i \in DOMAIN rels : drawn[i] = Thrown THEN Thrown
                              ELSE Bind([i \in DOMAIN tbls |->
                                            drawTable(tbls[i], opts, newWidths,
                                                      newPositions)],
                                        LAMBDA drawnTables :
                                            [kind |-> "diagram",
                                             width |-> bounds.width,
                                             height |-> bounds.height,
                                             relationships |-> drawn,
                                             tables |-> drawnTables,
                                             document |-> documentOf(drawn, drawnTables)]))
    IN  Bind(calculateTableWidths(tbls, 1, opts, widths), LAMBDA newWidths :
        Bind(calculatePositions(tbls, opts, newWidths, positions), LAMBDA newPositions :
             [svg |-> result(newWidths, newPositions),
              tableWidths |-> newWidths,
              tablePositions |-> newPositions]))

\* variant of generate without the early return for an empty table list
generateWithoutEmptyCheck(tbls, rels, opts, widths, positions) ==
    generateLayout(tbls, rels, opts, widths, positions)

\* generate
generate(tbls, rels, opts, widths, positions) ==
    IF Len(tbls) = 0
    THEN [svg |-> generateEmptyDiagram, tableWidths |-> widths, tablePositions |-> positions]
    ELSE generateLayout(tbls, rels, opts, widths, positions)

----------------------------------------------------------------------------
(* Path simplification *)

\* variant of keepsPoint that keeps every point where the direction turns at all
keepsPointAnyTurn(prev, current, next) ==
    LET d1x == current.x - prev.x
        d1y == current.y - prev.y
        d2x == next.x - current.x
        d2y == next.y - current.y
    IN  ~(d1x * d2y = d1y * d2x /\ d1x * d2x + d1y * d2y > 0)

\* the greatest common divisor of two natural numbers
RECURSIVE gcd(_, _)
gcd(a, b) == IF b = 0 THEN a ELSE gcd(b, a % b)

\* a common factor of a direction: normalize() gives the same unit vector for
\* (x, y) and (x / k, y / k), and the smaller numbers keep the products below
\* within the integer range
unit(x, y) == IF x = 0 /\ y = 0 THEN 1 ELSE gcd(Abs(x), Abs(y))

\* `dotProduct < 0.95` for the normalised directions prev -> current -> next.
\* A zero-length direction normalises to (0, 0), so the dot product is 0.
\* Otherwise d / sqrt(n1 * n2) < 19 / 20 iff d < 0 or 400 d^2 < 361 n1 n2.
keepsPoint(prev, current, next) ==
    LET g1 == unit(current.x - prev.x, current.y - prev.y)
        g2 == unit(next.x - current.x, next.y - current.y)
        d1x == (current.x - prev.x) \div g1
        d1y == (current.y - prev.y) \div g1
        d2x == (next.x - current.x) \div g2
        d2y == (next.y - current.y) \div g2
        d == d1x * d2x + d1y * d2y
        n1 == d1x * d1x + d1y * d1y
        n2 == d2x * d2x + d2y * d2y
    IN  n1 = 0 \/ n2 = 0 \/ d < 0 \/ 400 * d * d < 361 * n1 * n2

\* the loop of simplifyPath from interior point i on
RECURSIVE simplifyFrom(_, _, _)
simplifyFrom(p, i, kept) ==
    IF i > Len(p) - 1 THEN kept
    ELSE simplifyFrom(p, i + 1,
                      IF keepsPoint(p[i - 1], p[i], p[i + 1]) THEN Append(kept, p[i]) ELSE kept)

\* simplifyPath
simplifyPath(p) ==
    IF Len(p) <= 2 THEN p
    ELSE Append(simplifyFrom(p, 2, <<p[1]>>), p[Len(p)])

----------------------------------------------------------------------------
(* Grid search: findPathWithAStar.  Cells are {x, y} grid indices; points   *)
(* are in half pixels, so cell c has the real coordinate 2 * gridSize * c.   *)
(* A score is Infinity or the exact number a + b * sqrt(2).                  *)

gridSize == 20

buffer == 25

Infinity == [inf |-> TRUE, a |-> 0, b |-> 0]

Finite(a, b) == [inf |-> FALSE, a |-> a, b |-> b]

\* a + b * sqrt(2) < 0 for integers a, b
negativeSurd(a, b) ==
    \/ a < 0 /\ b <= 0
    \/ a <= 0 /\ b < 0
    \/ a < 0 /\ b > 0 /\ a * a > 2 * b * b
    \/ a > 0 /\ b < 0 /\ a * a < 2 * b * b

\* s < t on scores
scoreLess(s, t) ==
    /\ ~s.inf
    /\ t.inf \/ negativeSurd(s.a - t.a, s.b - t.b)

\* s >= t on scores
scoreGeq(s, t) == s.inf \/ (~t.inf /\ ~negativeSurd(s.a - t.a, s.b - t.b))

\* (map.get(key) || Infinity): an absent entry and the score 0 both give Infinity
orInfinity(map, key) ==
    IF key \notin DOMAIN map \/ map[key] = Finite(0, 0) THEN Infinity ELSE map[key]

\* score + moveCost, the cost being Math.sqrt(2) for a diagonal move and 1 otherwise
addMoveCost(score, diagonal) ==
    IF score.inf THEN Infinity
    ELSE IF diagonal THEN Finite(score.a, score.b + 1) ELSE Finite(score.a + 1, score.b)

\* score + heuristic
addHeuristic(score, h) == IF score.inf THEN Infinity ELSE Finite(score.a + h, score.b)

\* heuristic: the Manhattan distance of two cells
heuristic(a, b) == Abs(a.x - b.x) + Abs(a.y - b.y)

\* the table rectangles themselves, without the buffer around them
searchObstaclesTight(tbls, opts, widths, positions) ==
    {[x |-> rect.x, y |-> rect.y, right |-> rect.right, bottom |-> rect.bottom] :
        rect \in {getTableRect(tbls[i], opts, widths, positions) : i \in DOMAIN tbls} \ {NoRect}}

\* the obstacles of findPathWithAStar.  getTableRect builds a new object on
\* every call, so excludeRects.includes(rect) is false for every rectangle and
\* no table is left out, whatever the caller passes as excludeRects.
searchObstacles(tbls, opts, widths, positions) ==
    {[x |-> rect.x - HalfPx(buffer), y |-> rect.y - HalfPx(buffer),
      right |-> rect.right + HalfPx(buffer), bottom |-> rect.bottom + HalfPx(buffer)] :
        rect \in {getTableRect(tbls[i], opts, widths, positions) : i \in DOMAIN tbls} \ {NoRect}}

\* Math.floor(point / gridSize)
toGrid(point) == [x |-> point.x \div HalfPx(gridSize), y |-> point.y \div HalfPx(gridSize)]

\* isBlocked
isBlocked(cell, obstacles) ==
    LET x == cell.x * HalfPx(gridSize)
        y == cell.y * HalfPx(gridSize)
    IN  \E obstacle \in obstacles :
            /\ x >= obstacle.x /\ x <= obstacle.right
            /\ y >= obstacle.y /\ y <= obstacle.bottom

\* the eight neighbours in the order of the loops over dx and dy
neighbourSteps ==
    <<[dx |-> -1, dy |-> -1], [dx |-> -1, dy |-> 0], [dx |-> -1, dy |-> 1],
      [dx |-> 0, dy |-> -1], [dx |-> 0, dy |-> 1],
      [dx |-> 1, dy |-> -1], [dx |-> 1, dy |-> 0], [dx |-> 1, dy |-> 1]>>

\* openSet.sort by fScore: the comparator is negative exactly when f(a) < f(b)
\* (Infinity - Infinity is NaN, which sort treats as 0), and the sort is
\* stable, so a list that is already in order stays as it is
RECURSIVE insertSorted(_, _, _)
insertSorted(sorted, node, f) ==
    IF sorted = <<>> THEN <<node>>
    ELSE IF scoreLess(f[node], f[sorted[Len(sorted)]])
    THEN Append(insertSorted(SubSeq(sorted, 1, Len(sorted) - 1), node, f), sorted[Len(sorted)])
    ELSE Append(sorted, node)

RECURSIVE sortFrom(_, _, _, _)
sortFrom(openSet, i, f, sorted) ==
    IF i > Len(openSet) THEN sorted
    ELSE sortFrom(openSet, i + 1, f, insertSorted(sorted, openSet[i], f))

sortOpenSet(openSet, fScore) ==
    LET f == [node \in Range(openSet) |-> orInfinity(fScore, node)]
    IN  IF \A k \in 1..(Len(openSet) - 1) : ~scoreLess(f[openSet[k + 1]], f[openSet[k]])
        THEN openSet
        ELSE sortFrom(openSet, 1, f, <<>>)

\* the while loop of reconstructPath: the real points of the cells from
\* current back to the first cell without a cameFrom entry.  The loop does
\* not end when the entries form a cycle; fuel bounds the walk.
RECURSIVE walkBack(_, _, _, _)
walkBack(cameFrom, current, fuel, points) ==
    IF current \notin DOMAIN cameFrom THEN [ends |-> TRUE, points |-> points, first |-> current]
    ELSE IF fuel = 0 THEN [ends |-> FALSE, points |-> points, first |-> current]
    ELSE walkBack(cameFrom, cameFrom[current], fuel - 1,
                  <<[x |-> current.x * HalfPx(gridSize), y |-> current.y * HalfPx(gridSize)]>>
                      \o points)

\* reconstructPath: the path before and after simplifyPath
reconstructPath(cameFrom, current, start, end) ==
    Bind(walkBack(cameFrom, current, Cardinality(DOMAIN cameFrom), <<end>>), LAMBDA walk :
         IF ~walk.ends THEN [kind |-> "loop"]
         ELSE [kind |-> "route",
               reconstructed |-> <<start>> \o walk.points,
               points |-> simplifyPath(<<start>> \o walk.points)])

\* a route that always takes the band at a tenth of the canvas height
fallbackSimpleRouteTop(start, end, bounds) ==
    <<[x |-> 10 * start.x, y |-> 10 * start.y],
      [x |-> 10 * start.x, y |-> 2 * bounds.height],
      [x |-> 10 * end.x, y |-> 2 * bounds.height],
      [x |-> 10 * end.x, y |-> 10 * end.y]>>

\* fallbackSimpleRoute; start and end in half pixels, the result in twentieths
\* of a pixel (bounds.height * 0.1 and the midpoints are exact in that unit)
fallbackSimpleRoute(start, end, bounds) ==
    LET fine(v) == 10 * v
        startFromLeft == start.x < bounds.width
        endToLeft == end.x < bounds.width
        startFromTop == start.y < bounds.height
        endToTop == end.y < bounds.height
        routeY == IF startFromTop THEN 2 * bounds.height ELSE 18 * bounds.height
        routeX == IF startFromLeft THEN 2 * bounds.width ELSE 18 * bounds.width
        midX == 5 * (start.x + end.x)
        midY == 5 * (start.y + end.y)
        first == [x |-> fine(start.x), y |-> fine(start.y)]
        last == [x |-> fine(end.x), y |-> fine(end.y)]
    IN  IF startFromLeft # endToLeft
        THEN <<first, [x |-> first.x, y |-> routeY], [x |-> last.x, y |-> routeY], last>>
        ELSE IF startFromTop # endToTop
        THEN <<first, [x |-> routeX, y |-> first.y], [x |-> routeX, y |-> last.y], last>>
        ELSE IF Abs(end.x - start.x) > Abs(end.y - start.y)
        THEN <<first, [x |-> midX, y |-> first.y], [x |-> midX, y |-> last.y], last>>
        ELSE <<first, [x |-> first.x, y |-> midY], [x |-> last.x, y |-> midY], last>>

\* findPathWithAStar up to its while loop: the locals of the call
searchStart(start, end, tbls, opts, widths, positions) ==
    LET bounds == calculateCanvasBounds(tbls, opts, widths, positions)
        startGrid == toGrid(start)
        endGrid == toGrid(end)
    IN  IF bounds.throws THEN [status |-> "throw"]
        ELSE [status |-> "running",
              start |-> start,
              end |-> end,
              obstacles |-> searchObstacles(tbls, opts, widths, positions),
              bounds |-> bounds,
              gridWidth |-> CeilDiv(bounds.width, gridSize),
              gridHeight |-> CeilDiv(bounds.height, gridSize),
              startGrid |-> startGrid,
              endGrid |-> endGrid,
              openSet |-> <<startGrid>>,
              closedSet |-> {},
              gScore |-> MapSet(EmptyMap, startGrid, Finite(0, 0)),
              fScore |-> MapSet(EmptyMap, startGrid, Finite(heuristic(startGrid, endGrid), 0)),
              cameFrom |-> EmptyMap,
              current |-> startGrid]

\* the neighbours of current that pass the bounds and isBlocked tests, closed or not
openNeighboursRevisited(st, current, closedSet) ==
    LET at(k) == [x |-> current.x + neighbourSteps[k].dx, y |-> current.y + neighbourSteps[k].dy]
        passes(k) ==
            /\ at(k).x >= 0 /\ at(k).x < st.gridWidth
            /\ at(k).y >= 0 /\ at(k).y < st.gridHeight
            /\ ~isBlocked(at(k), st.obstacles)
    IN  SelectSeq([k \in 1..8 |-> [node |-> at(k),
                                    diagonal |-> neighbourSteps[k].dx # 0
                                                     /\ neighbourSteps[k].dy # 0,
                                    passes |-> passes(k)]],
                  LAMBDA n : n.passes)

\* the neighbours of current that pass the bounds, closedSet and isBlocked tests
openNeighbours(st, current, closedSet) ==
    LET at(k) == [x |-> current.x + neighbourSteps[k].dx, y |-> current.y + neighbourSteps[k].dy]
        passes(k) ==
            /\ at(k).x >= 0 /\ at(k).x < st.gridWidth
            /\ at(k).y >= 0 /\ at(k).y < st.gridHeight
            /\ at(k) \notin closedSet
            /\ ~isBlocked(at(k), st.obstacles)
    IN  SelectSeq([k \in 1..8 |-> [node |-> at(k),
                                    diagonal |-> neighbourSteps[k].dx # 0
                                                     /\ neighbourSteps[k].dy # 0,
                                    passes |-> passes(k)]],
                  LAMBDA n : n.passes)

\* one iteration of the while loop of findPathWithAStar
searchStep(st) ==
    Bind(sortOpenSet(st.openSet, st.fScore), LAMBDA sorted :
    Bind(sorted[1], LAMBDA current :
         IF current = st.endGrid
         THEN [status |-> "found",
               start |-> st.start, end |-> st.end, obstacles |-> st.obstacles,
               bounds |-> st.bounds,
               gridWidth |-> st.gridWidth, gridHeight |-> st.gridHeight,
               startGrid |-> st.startGrid, endGrid |-> st.endGrid,
               closedSet |-> st.closedSet, gScore |-> st.gScore, cameFrom |-> st.cameFrom,
               result |-> reconstructPath(st.cameFrom, current, st.start, st.end)]
         ELSE
    Bind(st.closedSet \cup {current}, LAMBDA closedSet :
    Bind(Range(Tail(sorted)), LAMBDA inOpenSet :
    Bind(addMoveCost(orInfinity(st.gScore, current), FALSE), LAMBDA straightScore :
    Bind(addMoveCost(orInfinity(st.gScore, current), TRUE), LAMBDA diagonalScore :
    Bind(openNeighbours(st, current, closedSet), LAMBDA neighbours :
    Bind(SelectSeq(neighbours, LAMBDA n :
             \/ n.node \notin inOpenSet
             \/ ~scoreGeq(IF n.diagonal THEN diagonalScore ELSE straightScore,
                          orInfinity(st.gScore, n.node))),
         LAMBDA better :
    Bind({better[k].node : k \in DOMAIN better}, LAMBDA betterNodes :
    Bind({better[k].node : k \in {j \in DOMAIN better : better[j].diagonal}},
         LAMBDA diagonalNodes :
         LET pushed == SelectSeq(neighbours, LAMBDA n : n.node \notin inOpenSet)
             tentativeGScore(node) ==
                 IF node \in diagonalNodes THEN diagonalScore ELSE straightScore
         IN  [st EXCEPT
                 !.current = current,
                 !.openSet = Tail(sorted) \o [k \in DOMAIN pushed |-> pushed[k].node],
                 !.closedSet = closedSet,
                 !.cameFrom = [node \in DOMAIN st.cameFrom \cup betterNodes |->
                                  IF node \in betterNodes THEN current
                                  ELSE st.cameFrom[node]],
                 !.gScore = [node \in DOMAIN st.gScore \cup betterNodes |->
                                IF node \in betterNodes THEN tentativeGScore(node)
                                ELSE st.gScore[node]],
                 !.fScore = [node \in DOMAIN st.fScore \cup betterNodes |->
                                IF node \in betterNodes
                                THEN addHeuristic(tentativeGScore(node),
                                                  heuristic(node, st.endGrid))
                                ELSE st.fScore[node]]]))))))))))

\* the return after the while loop: the open list is empty
searchFallback(st) ==
    [status |-> "fallback",
     start |-> st.start, end |-> st.end, obstacles |-> st.obstacles,
     bounds |-> st.bounds,
     gridWidth |-> st.gridWidth, gridHeight |-> st.gridHeight,
     startGrid |-> st.startGrid, endGrid |-> st.endGrid,
     closedSet |-> st.closedSet, gScore |-> st.gScore, cameFrom |-> st.cameFrom,
     result |-> [kind |-> "route",
                 points |-> fallbackSimpleRoute(st.start, st.end, st.bounds)]]

----------------------------------------------------------------------------
(* Path data: createSmoothPath                                             *)
(*                                                                         *)
(* A point of the path data is the point at a distance from a waypoint     *)
(* `at` in the direction of the point `towards`, turned by `turn` degrees; *)
(* distSq4 is four times the square of the distance, which is an integer   *)
(* where the distance itself (a multiple of Math.sqrt) is not.             *)

exactPoint(p) == [at |-> p, towards |-> p, distSq4 |-> 0, turn |-> 0]

lengthSq(p, q) == (q.x - p.x) * (q.x - p.x) + (q.y - p.y) * (q.y - p.y)

\* a corner radius of 15 whatever the lengths of the segments
cornerRadiusFixed(len1Sq, len2Sq) == 4 * 15 * 15

\* adjustedRadius = Math.min(radius, len1 / 2, len2 / 2), as 4 * adjustedRadius^2
adjustedRadius(len1Sq, len2Sq) == Min(4 * 15 * 15, Min(len1Sq, len2Sq))

\* the arrowhead: two strokes of length 8 back from the end point, 30 degrees
\* to either side of the last segment; Math.atan2(0, 0) is 0, the direction of
\* the x axis
arrowhead(current, previous) ==
    LET back == IF previous = current THEN [x |-> current.x - 1, y |-> current.y]
                ELSE previous
        stroke(turn) == [at |-> current, towards |-> back, distSq4 |-> 4 * 8 * 8, turn |-> turn]
    IN  <<[op |-> "M", to |-> exactPoint(current)], [op |-> "L", to |-> stroke(-30)],
          [op |-> "M", to |-> exactPoint(current)], [op |-> "L", to |-> stroke(30)]>>

\* the body of the for loop of createSmoothPath for waypoint i
smoothSegment(waypoints, i) ==
    LET current == waypoints[i]
        previous == waypoints[i - 1]
    IN  IF i = Len(waypoints)
        THEN <<[op |-> "L", to |-> exactPoint(current)]>> \o arrowhead(current, previous)
        ELSE LET next == waypoints[i + 1]
                 len1Sq == lengthSq(previous, current)
                 len2Sq == lengthSq(current, next)
                 radiusSq4 == adjustedRadius(len1Sq, len2Sq)
             IN  IF len1Sq > 0 /\ len2Sq > 0
                 THEN <<[op |-> "L",
                         to |-> [at |-> current, towards |-> previous,
                                 distSq4 |-> radiusSq4, turn |-> 0]],
                        [op |-> "Q",
                         control |-> exactPoint(current),
                         to |-> [at |-> current, towards |-> next,
                                 distSq4 |-> radiusSq4, turn |-> 0]]>>
                 ELSE <<[op |-> "L", to |-> exactPoint(current)]>>

RECURSIVE smoothFrom(_, _, _)
smoothFrom(waypoints, i, data) ==
    IF i > Len(waypoints) THEN data
    ELSE smoothFrom(waypoints, i + 1, data \o smoothSegment(waypoints, i))

\* createSmoothPath: the commands of the path data; the empty string has none
createSmoothPath(waypoints) ==
    IF Len(waypoints) < 2 THEN <<>>
    ELSE smoothFrom(waypoints, 2, <<[op |-> "M", to |-> exactPoint(waypoints[1])]>>)

----------------------------------------------------------------------------
(* Inputs *)

MaxTables == 4

MaxLifeTables == 2

MaxPathLen == 4

MaxStep == 5

IntegerColumn(name) == [name |-> name, type |-> "INTEGER", allowNull |-> FALSE]

ForeignKey(column, table) ==
    [column |-> column, referencedTable |-> table, referencedColumn |-> "id"]

Orders ==
    [name |-> "orders", displayName |-> "", fullName |-> "",
     columns |-> <<IntegerColumn("id"), IntegerColumn("customer_id")>>,
     primaryKeys |-> {"id"},
     foreignKeys |-> <<ForeignKey("customer_id", "customers")>>]

Customers ==
    [name |-> "customers", displayName |-> "", fullName |-> "",
     columns |-> <<IntegerColumn("id")>>,
     primaryKeys |-> {"id"},
     foreignKeys |-> <<>>]

Payments ==
    [name |-> "payments", displayName |-> "public.payments", fullName |-> "",
     columns |-> <<IntegerColumn("id"), IntegerColumn("order_id"),
                   [name |-> "amount", type |-> "decimal(10,2)", allowNull |-> FALSE],
                   [name |-> "paid_at", type |-> "TIMESTAMP WITH TIME ZONE",
                    allowNull |-> TRUE]>>,
     primaryKeys |-> {"id"},
     foreignKeys |-> <<ForeignKey("order_id", "orders")>>]

AuditLog ==
    [name |-> "audit_log",
     displayName |-> "reporting.audit_log_of_all_schema_and_data_changes",
     fullName |-> "",
     columns |-> [i \in 1..17 |-> [name |-> "col" \o ToString(i), type |-> "VARCHAR(255)",
                                   allowNull |-> TRUE]],
     primaryKeys |-> {"col1"},
     foreignKeys |-> <<>>]

Tags ==
    [name |-> "tags", displayName |-> "", fullName |-> "",
     columns |-> <<IntegerColumn("id"),
                   [name |-> "label", type |-> "VARCHAR(50)", allowNull |-> TRUE]>>,
     primaryKeys |-> {"id"},
     foreignKeys |-> <<>>]

TableCatalogue == <<Orders, Customers, Payments, AuditLog, Tags>>

Relationship(fromTable, fromColumn, toTable, toColumn) ==
    [fromTable |-> fromTable, fromColumn |-> fromColumn,
     toTable |-> toTable, toColumn |-> toColumn,
     constraintName |-> "fk_" \o fromColumn]

\* orders.customer_id -> customers.id; a target table that exists nowhere; a
\* schema-qualified source; a column that is truncated away
RelationshipCatalogue ==
    <<Relationship("orders", "customer_id", "customers", "id"),
      Relationship("orders", "customer_id", "crm.clients", "id"),
      Relationship("public.payments", "order_id", "orders", "id"),
      Relationship("audit_log", "col17", "customers", "id")>>

\* the tables of the grid search layouts: the first MaxSearchTables or fewer
SearchCatalogue == SubSeq(TableCatalogue, 1, 2)

MaxSearchTables == 2

\* the tables whose list changes over the generator's lifetime
LifeCatalogue == SubSeq(TableCatalogue, 1, 3)

\* the sequences of at most n tables drawn from a catalogue
RECURSIVE TableLists(_, _)
TableLists(catalogue, n) ==
    IF n = 0 THEN {<<>>}
    ELSE LET shorter == TableLists(catalogue, n - 1)
             longest == {l \in shorter : Len(l) = n - 1}
         IN  shorter \cup {Append(l, t) : l \in longest, t \in Range(catalogue)}

DistinctNames(tbls) == \A i, j \in DOMAIN tbls : i # j => tbls[i].name # tbls[j].name

\* the relationship lists: the prefixes of the catalogue
RelationshipLists == {SubSeq(RelationshipCatalogue, 1, n) : n \in 0..Len(RelationshipCatalogue)}

NoCall == [kind |-> "none"]

NoConnection == [fromTable |-> 0]

NoSimplification == [done |-> FALSE, points |-> <<>>]

NoRoute == [by |-> "none"]

NoSearch == [status |-> "idle"]

NoPathData == [done |-> FALSE]

Origin == [x |-> 0, y |-> 0]

\* the steps from one waypoint to the next
Steps == {[x |-> dx, y |-> dy] : dx \in (-1)..MaxStep, dy \in 0..1}

\* the waypoint lists of at most n points that start at the origin
RECURSIVE Paths(_)
Paths(n) ==
    IF n = 0 THEN {<<>>}
    ELSE IF n = 1 THEN {<<>>, <<Origin>>}
    ELSE LET shorter == Paths(n - 1)
             longest == {p \in shorter : Len(p) = n - 1}
         IN  shorter \cup {Append(p, [x |-> p[Len(p)].x + s.x, y |-> p[Len(p)].y + s.y]) :
                              p \in longest, s \in Steps}

\* the waypoint lists are laid out in units of 1 or 10 pixels
Scales == {1, 10}

scaled(waypoints, scale) ==
    [k \in DOMAIN waypoints |-> [x |-> scale * waypoints[k].x, y |-> scale * waypoints[k].y]]

\* the column names a caller passes for a table: its first column, its last
\* column and a name the table does not have
ColumnChoices(table) ==
    {table.columns[1].name, table.columns[Len(table.columns)].name, "no_such_column"}

----------------------------------------------------------------------------
(* The generator over its lifetime: generate() calls with the table list   *)
(* changed between them                                                    *)

Init ==
    /\ tables \in {l \in TableLists(LifeCatalogue, MaxLifeTables) : DistinctNames(l)}
    /\ relationships \in RelationshipLists
    /\ options \in {WithFlags(TRUE, TRUE, debug) : debug \in BOOLEAN}
    /\ tablePositions = EmptyMap
    /\ tableWidths = EmptyMap
    /\ svg = NoCall
    /\ path = <<>>
    /\ simplified = NoSimplification
    /\ conn = NoConnection
    /\ routed = NoRoute
    /\ astar = NoSearch
    /\ pathData = NoPathData

\* generate(): the whole call, an exception included
Generate ==
    /\ \E result \in {generate(tables, relationships, options, tableWidths, tablePositions)} :
          /\ svg' = result.svg
          /\ tableWidths' = result.tableWidths
          /\ tablePositions' = result.tablePositions
    /\ UNCHANGED <<tables, relationships, options, path, simplified, conn, routed, astar, pathData>>

\* the caller replaces the table list the generator holds
SetTables ==
    /\ \E l \in TableLists(LifeCatalogue, MaxLifeTables) :
          /\ DistinctNames(l)
          /\ l # tables
          /\ tables' = l
    /\ svg' = NoCall
    /\ UNCHANGED <<relationships, options, tablePositions, tableWidths, path, simplified,
                   conn, routed, astar, pathData>>

Next == Generate \/ SetTables

Spec == Init /\ [][Next]_vars

----------------------------------------------------------------------------
(* generate() on every layout of catalogue tables                          *)

InitLayout ==
    /\ tables \in {l \in TableLists(TableCatalogue, MaxTables) : DistinctNames(l)}
    /\ relationships = RelationshipCatalogue
    /\ options \in {WithFlags(types, constraints, FALSE) :
                       types \in BOOLEAN, constraints \in BOOLEAN}
    /\ tablePositions = EmptyMap
    /\ tableWidths = EmptyMap
    /\ svg = NoCall
    /\ path = <<>>
    /\ simplified = NoSimplification
    /\ conn = NoConnection
    /\ routed = NoRoute
    /\ astar = NoSearch
    /\ pathData = NoPathData

NextLayout == Generate

SpecLayout == InitLayout /\ [][NextLayout]_vars

----------------------------------------------------------------------------
(* generate() followed by drawRelationship calls in any order              *)

\* drawRelationship called for a relationship that was not routed yet, in any
\* order, after the tables were placed
Draw ==
    /\ svg.kind = "diagram"
    /\ \E r \in DOMAIN relationships :
          /\ IF routed = NoRoute THEN TRUE ELSE r \notin DOMAIN routed.drawn
          /\ \E call \in {drawRelationshipCall(relationships[r], tables, options,
                                                tableWidths, tablePositions)} :
                /\ call.drawn # Thrown
                /\ routed' = [by |-> "drawRelationship",
                              drawn |-> MapSet(IF routed = NoRoute THEN EmptyMap
                                               ELSE routed.drawn, r, call.drawn)]
                /\ tableWidths' = call.tableWidths
                /\ tablePositions' = call.tablePositions
    /\ UNCHANGED <<tables, relationships, options, svg, path, simplified, conn, astar,
                   pathData>>

NextDraw == Generate \/ Draw

SpecDraw == InitLayout /\ [][NextDraw]_vars


----------------------------------------------------------------------------
(* Connection-point queries on every placed layout                         *)

InitConn ==
    /\ tables \in {l \in TableLists(TableCatalogue, MaxTables) : DistinctNames(l)}
    /\ relationships = <<>>
    /\ options = DefaultOptions
    /\ tablePositions = EmptyMap
    /\ tableWidths = EmptyMap
    /\ svg = NoCall
    /\ path = <<>>
    /\ simplified = NoSimplification
    /\ conn = NoConnection
    /\ routed = NoRoute
    /\ astar = NoSearch
    /\ pathData = NoPathData

\* the first generate() call, which sizes and places the tables
Place == svg = NoCall /\ Generate

\* findBestConnectionPoints called for two placed tables and two column names
Resolve ==
    /\ svg.kind = "diagram"
    /\ conn = NoConnection
    /\ \E i \in DOMAIN tables, j \in DOMAIN tables :
          \E a \in ColumnChoices(tables[i]), b \in ColumnChoices(tables[j]) :
             conn' = [fromTable |-> i, toTable |-> j, fromColumn |-> a, toColumn |-> b,
                      points |-> findBestConnectionPoints(
                                     getTableRect(tables[i], options, tableWidths, tablePositions),
                                     getTableRect(tables[j], options, tableWidths, tablePositions),
                                     a, b, tables[i], tables[j],
                                     options, tableWidths, tablePositions)]
    /\ UNCHANGED <<tables, relationships, options, tablePositions, tableWidths, svg,
                   path, simplified, routed, astar, pathData>>

NextConn == Place \/ Resolve

SpecConn == InitConn /\ [][NextConn]_vars

----------------------------------------------------------------------------
(* The perimeter fallback between resolved anchors on every placed layout  *)

\* createSafePerimeterPath called with the anchors findBestConnectionPoints
\* returned
Perimeter ==
    /\ conn # NoConnection
    /\ routed = NoRoute
    /\ \E result \in {createSafePerimeterPath(conn.points.start, conn.points.end,
                                               tables, options, tableWidths,
                                               tablePositions)} :
          routed' = [by |-> "createSafePerimeterPath", result |-> result]
    /\ UNCHANGED <<tables, relationships, options, tablePositions, tableWidths, svg,
                   path, simplified, conn, astar, pathData>>

\* createSimpleRoute called with the anchors findBestConnectionPoints
\* returned, for the two tables of the query
SimpleRoute ==
    /\ conn # NoConnection
    /\ routed = NoRoute
    /\ \E result \in {createSimpleRoute(conn.points.start, conn.points.end,
                                         conn.fromTable, conn.toTable,
                                         tables, options, tableWidths, tablePositions)} :
          routed' = [by |-> "createSimpleRoute",
                     result |-> [kind |-> "route", points |-> result]]
    /\ UNCHANGED <<tables, relationships, options, tablePositions, tableWidths, svg,
                   path, simplified, conn, astar, pathData>>

NextRoute == Place \/ Resolve \/ Perimeter \/ SimpleRoute

SpecRoute == InitConn /\ [][NextRoute]_vars

----------------------------------------------------------------------------
(* findPathWithAStar between side anchors of placed tables, one iteration  *)
(* of its while loop per step                                              *)

InitSearch ==
    /\ tables \in {SubSeq(SearchCatalogue, 1, n) :
                       n \in 0..Min(MaxSearchTables, Len(SearchCatalogue))}
    /\ relationships = <<>>
    /\ options = DefaultOptions
    /\ tablePositions = EmptyMap
    /\ tableWidths = EmptyMap
    /\ svg = NoCall
    /\ path = <<>>
    /\ simplified = NoSimplification
    /\ conn = NoConnection
    /\ routed = NoRoute
    /\ astar = NoSearch
    /\ pathData = NoPathData

\* findPathWithAStar is called with an anchor of the first table and an anchor
\* of the last table and runs up to its while loop
Search ==
    /\ svg.kind = "diagram"
    /\ astar = NoSearch
    /\ \E fromSide \in Range(Sides), toSide \in Range(Sides) :
          \E call \in {searchStart(
                           sidePoint(getTableRect(tables[1], options, tableWidths,
                                                  tablePositions),
                                     fromSide,
                                     getColumnYPosition(tables[1], tables[1].columns[1].name,
                                                        options, tableWidths, tablePositions),
                                     options),
                           sidePoint(getTableRect(tables[Len(tables)], options, tableWidths,
                                                  tablePositions),
                                     toSide,
                                     getColumnYPosition(tables[Len(tables)],
                                                        tables[Len(tables)].columns[1].name,
                                                        options, tableWidths, tablePositions),
                                     options),
                           tables, options, tableWidths, tablePositions)} :
             astar' = call
    /\ UNCHANGED <<tables, relationships, options, tablePositions, tableWidths, svg,
                   path, simplified, conn, routed, pathData>>

\* one iteration of the while loop, the return through reconstructPath included
Expand ==
    /\ astar.status = "running"
    /\ astar.openSet # <<>>
    /\ \E next \in {searchStep(astar)} : astar' = next
    /\ UNCHANGED <<tables, relationships, options, tablePositions, tableWidths, svg,
                   path, simplified, conn, routed, pathData>>

\* the open list is empty: the call returns fallbackSimpleRoute(start, end)
GiveUp ==
    /\ astar.status = "running"
    /\ astar.openSet = <<>>
    /\ astar' = searchFallback(astar)
    /\ UNCHANGED <<tables, relationships, options, tablePositions, tableWidths, svg,
                   path, simplified, conn, routed, pathData>>

NextSearch == Place \/ Search \/ Expand \/ GiveUp

SpecSearch == InitSearch /\ [][NextSearch]_vars

\* the call is not suspended for ever: every started iteration is executed
FairSearch == SpecSearch /\ WF_vars(NextSearch)

----------------------------------------------------------------------------
(* simplifyPath applied to waypoint lists                                  *)

InitSimplify ==
    /\ tables = <<>>
    /\ relationships = <<>>
    /\ options = DefaultOptions
    /\ tablePositions = EmptyMap
    /\ tableWidths = EmptyMap
    /\ svg = NoCall
    /\ path \in Paths(MaxPathLen)
    /\ simplified = NoSimplification
    /\ conn = NoConnection
    /\ routed = NoRoute
    /\ astar = NoSearch
    /\ pathData = NoPathData

Simplify ==
    /\ ~simplified.done
    /\ simplified' = [done |-> TRUE, points |-> simplifyPath(path)]
    /\ UNCHANGED <<tables, relationships, options, tablePositions, tableWidths, svg,
                   path, conn, routed, astar, pathData>>

\* createSmoothPath on the waypoint list at one of the scales
Smooth ==
    /\ ~pathData.done
    /\ \E scale \in Scales :
          pathData' = [done |-> TRUE,
                       waypoints |-> scaled(path, scale),
                       commands |-> createSmoothPath(scaled(path, scale))]
    /\ UNCHANGED <<tables, relationships, options, tablePositions, tableWidths, svg,
                   path, simplified, conn, routed, astar>>

NextSimplify == Simplify \/ Smooth

SpecSimplify == InitSimplify /\ [][NextSimplify]_vars

----------------------------------------------------------------------------
(* Properties of one generate() call (SpecLayout)                          *)

\* the closed segment from p to q and the closed box have a point in common:
\* their extents overlap on both axes and the box's corners are not all
\* strictly on one side of the line through p and q
SegmentMeetsBox(p, q, box) ==
    LET side(cx, cy) == (q.x - p.x) * (cy - p.y) - (q.y - p.y) * (cx - p.x)
        corners == {side(box.x, box.y), side(box.right, box.y),
                    side(box.x, box.bottom), side(box.right, box.bottom)}
    IN  /\ Max(p.x, q.x) >= box.x
        /\ Min(p.x, q.x) <= box.right
        /\ Max(p.y, q.y) >= box.y
        /\ Min(p.y, q.y) <= box.bottom
        /\ ~(\A c \in corners : c > 0)
        /\ ~(\A c \in corners : c < 0)

\* the relationships the last call drew as a routed line
DrawnPaths ==
    IF svg.kind = "diagram"
    THEN {r \in DOMAIN svg.relationships : svg.relationships[r].kind = "path"}
    ELSE {}

FromIndex(r) == findTable(tables, relationships[r].fromTable)

ToIndex(r) == findTable(tables, relationships[r].toTable)

TableRect(i) == getTableRect(tables[i], options, tableWidths, tablePositions)

\* C1: every route generateSmartPath returns has at least two waypoints and
\* none of its segments meets the rectangle, expanded by collisionBuffer +
\* visualBuffer, of a table other than the relationship's two endpoints.
C1_RouteAvoidsOtherTables ==
    \A r \in DrawnPaths :
        LET route == svg.relationships[r].route
        IN  /\ Len(route) >= 2
            /\ \A k \in 1..(Len(route) - 1) :
                   \A o \in DOMAIN tables \ {FromIndex(r), ToIndex(r)} :
                       ~SegmentMeetsBox(route[k], route[k + 1],
                                        expandedRect(TableRect(o), options))

\* C5: after calculateTableWidths, getTableWidth of every table lies between
\* minTableWidth and maxTableWidth, both included.
C5_WidthWithinLimits ==
    svg.kind = "diagram" =>
        \A i \in DOMAIN tables :
            /\ options.minTableWidth <= getTableWidth(tables[i], options, tableWidths)
            /\ getTableWidth(tables[i], options, tableWidths) <= options.maxTableWidth

\* a generated layout with a table at the minimum width, one at the maximum
\* width and one strictly between, whose text alone is wider than the maximum
C5_Witness ==
    /\ svg.kind = "diagram"
    /\ \E i, j, k \in DOMAIN tables :
          /\ getTableWidth(tables[i], options, tableWidths) = options.minTableWidth
          /\ getTableWidth(tables[j], options, tableWidths) = options.maxTableWidth
          /\ computeTableWidthUnclamped(tables[j], options) > options.maxTableWidth
          /\ getTableWidth(tables[k], options, tableWidths) > options.minTableWidth
          /\ getTableWidth(tables[k], options, tableWidths) < options.maxTableWidth

\* C6: the height of every drawn table is tableHeaderHeight + v * columnHeight,
\* plus columnHeight when the table has more than maxColumns columns, plus the
\* footer padding of 15, with v = min(number of columns, maxColumns); tables
\* with the same number of columns have the same height.
C6_HeightFormula ==
    svg.kind = "diagram" =>
        /\ \A i \in DOMAIN tables :
              LET n == Len(tables[i].columns)
                  v == IF n <= options.maxColumns THEN n ELSE options.maxColumns
              IN  /\ svg.tables[i].height =
                         options.tableHeaderHeight + v * options.columnHeight
                         + (IF n > options.maxColumns THEN options.columnHeight ELSE 0) + 15
                  /\ TableRect(i).height = HalfPx(svg.tables[i].height)
        /\ \A i, j \in DOMAIN tables :
              Len(tables[i].columns) = Len(tables[j].columns)
                  => svg.tables[i].height = svg.tables[j].height

\* a generated layout with a truncated table and an untruncated one
C6_Witness ==
    /\ svg.kind = "diagram"
    /\ \E i, j \in DOMAIN tables :
          /\ Len(tables[i].columns) > options.maxColumns
          /\ svg.tables[i].hasMore
          /\ Len(tables[j].columns) < options.maxColumns
          /\ Len(tables[j].columns) > 1

\* the drawn relationships orders.customer_id -> customers.id whose two tables
\* are neighbours in one row
OrdersToCustomers ==
    {r \in DrawnPaths :
        /\ relationships[r].fromTable = "orders"
        /\ relationships[r].fromColumn = "customer_id"
        /\ relationships[r].toTable = "customers"
        /\ relationships[r].toColumn = "id"
        /\ Abs(FromIndex(r) - ToIndex(r)) = 1
        /\ tablePositions["orders"].y = tablePositions["customers"].y}

\* C9 as stated: for orders and customers alone in one row the resolver picks
\* the opposing left/right anchors and the route is a single horizontal segment.
C9_SingleHorizontalSegment ==
    Len(tables) = 2 =>
        \A r \in OrdersToCustomers :
            LET drawn == svg.relationships[r]
            IN  /\ {drawn.fromSide, drawn.toSide} = {"left", "right"}
                /\ \A k \in DOMAIN drawn.route : drawn.route[k].y = drawn.route[1].y

\* C9, amended: for orders and customers side by side in one row, with or
\* without other tables around them, the resolver picks the opposing left/right anchors that face
\* each other, each anchor lies on the row of its column (customer_id is the
\* second row of orders, id the first row of customers), and the route is the
\* first L-route: a horizontal segment on the source row followed by a
\* vertical segment of columnHeight pixels.
C9_ColumnAlignedRoute ==
    \A r \in OrdersToCustomers :
        LET drawn == svg.relationships[r]
            orders == TableRect(FromIndex(r))
            customers == TableRect(ToIndex(r))
            rowOne == HalfPx(options.tableHeaderHeight + 9) + options.columnHeight
            start == drawn.route[1]
            end == drawn.route[Len(drawn.route)]
        IN  /\ IF orders.x < customers.x
               THEN drawn.fromSide = "right" /\ drawn.toSide = "left"
               ELSE drawn.fromSide = "left" /\ drawn.toSide = "right"
            /\ start.y = orders.y + rowOne + HalfPx(options.columnHeight)
            /\ end.y = customers.y + rowOne
            /\ drawn.route = <<start, [x |-> end.x, y |-> start.y], end>>
            /\ start.y - end.y = HalfPx(options.columnHeight)

\* orders and customers alone, in this order, drawn with the default options
C9_Witness ==
    /\ OrdersToCustomers # {}
    /\ tables = <<Orders, Customers>>
    /\ options = DefaultOptions

----------------------------------------------------------------------------
(* Properties of the generator over its lifetime (Spec)                    *)

TableNames == {tables[i].name : i \in DOMAIN tables}

\* relationship r names a table that is not in the table list
Dangling(r) == FromIndex(r) = 0 \/ ToIndex(r) = 0

\* the outcome of the same call on the list without relationship r
WithoutRelationship(r) ==
    generate(tables, RemoveAt(relationships, r), options, tableWidths, tablePositions)

\* C2: a relationship whose fromTable or toTable names no table does not make
\* drawRelationship throw and is drawn as the 'table not found' annotation
\* only; the maps, the canvas bounds and what is drawn for every other
\* relationship are what the call gives for the list without it.
C2_DanglingRelationshipIgnored ==
    svg.kind \in {"diagram", "throw"} =>
        \A r \in DOMAIN relationships :
            Dangling(r) =>
                LET own == drawRelationship(relationships[r], tables, options,
                                            tableWidths, tablePositions)
                    without == WithoutRelationship(r)
                IN  /\ own = NotFound(relationships[r])
                    /\ without.tableWidths = tableWidths
                    /\ without.tablePositions = tablePositions
                    /\ svg.kind = "throw" => without.svg = svg
                    /\ svg.kind = "diagram" =>
                          /\ svg.relationships[r] = own
                          /\ without.svg =
                                 [svg EXCEPT !.relationships = RemoveAt(@, r),
                                             !.document = RemoveAt(@, r)]

\* a drawn diagram with a dangling relationship followed by a routed one
C2_Witness ==
    /\ svg.kind = "diagram"
    /\ \E r \in DOMAIN relationships : Dangling(r) /\ (r + 1) \in DrawnPaths

\* C3: generate() on an empty table list returns the 600 x 400 placeholder
\* with its message, whatever the relationships are, and leaves the position
\* map and the width map as they were.
C3_EmptyListPlaceholder ==
    [][(svg = NoCall /\ svg' # NoCall /\ tables = <<>>) =>
          /\ svg' = [kind |-> "empty", width |-> 600, height |-> 400,
                     message |-> "No tables found in database"]
          /\ tablePositions' = tablePositions
          /\ tableWidths' = tableWidths]_vars

\* the placeholder returned for an emptied list while relationships exist and
\* the maps still hold the entries of an earlier call
C3_Witness ==
    /\ svg.kind = "empty"
    /\ tables = <<>>
    /\ relationships # <<>>
    /\ DOMAIN tablePositions # {}
    /\ DOMAIN tableWidths # {}

\* C4: with debugPaths set and a resolvable relationship, generate() completes
\* and draws the tables and routes it draws with debugPaths unset.
C4_DebugPathsSameGeometry ==
    (/\ svg.kind \in {"diagram", "throw"}
     /\ options.debugPaths
     /\ DOMAIN tablePositions \subseteq TableNames
     /\ \E r \in DOMAIN relationships : ~Dangling(r))
        => /\ svg.kind = "diagram"
           /\ LET plain == generate(tables, relationships,
                                    [options EXCEPT !.debugPaths = FALSE],
                                    tableWidths, tablePositions).svg
              IN  /\ plain.tables = svg.tables
                  /\ \A r \in DrawnPaths :
                         plain.relationships[r].route = svg.relationships[r].route

\* C10: after every generate() call both maps hold exactly the tables of the
\* current list, with the values a fresh generator computes, and the call
\* returns what a fresh generator returns.
C10_MapsMatchCurrentInput ==
    (svg # NoCall /\ ~options.debugPaths) =>
        LET fresh == generate(tables, relationships, options, EmptyMap, EmptyMap)
        IN  /\ svg.kind # "throw"
            /\ DOMAIN tablePositions = TableNames
            /\ DOMAIN tableWidths = TableNames
            /\ tablePositions = fresh.tablePositions
            /\ tableWidths = fresh.tableWidths
            /\ svg = fresh.svg

----------------------------------------------------------------------------
(* Properties of simplifyPath (SpecSimplify)                               *)

\* C7: simplifyPath(simplifyPath(p)) = simplifyPath(p) for every waypoint list.
C7_SimplifyIdempotent ==
    simplified.done => simplifyPath(simplified.points) = simplified.points

----------------------------------------------------------------------------
(* Properties of findBestConnectionPoints (SpecConn)                       *)

\* the same query with the two endpoints swapped
Swapped ==
    findBestConnectionPoints(TableRect(conn.toTable), TableRect(conn.fromTable),
                             conn.toColumn, conn.fromColumn,
                             tables[conn.toTable], tables[conn.fromTable],
                             options, tableWidths, tablePositions)

\* a result mirrors another: sides and anchors exchanged
Mirrors(reverse, forward) ==
    /\ reverse.fromSide = forward.toSide
    /\ reverse.toSide = forward.fromSide
    /\ reverse.start = forward.end
    /\ reverse.end = forward.start

\* the squared score of the pair a result selected
SelectedScore(points) == scoreSq(points.fromSide, points.toSide, points.start, points.end)

\* the side pairs of the query that reach the score of the selected pair
BestPairs ==
    LET fromRect == TableRect(conn.fromTable)
        toRect == TableRect(conn.toTable)
        fromColumnY == getColumnYPosition(tables[conn.fromTable], conn.fromColumn,
                                          options, tableWidths, tablePositions)
        toColumnY == getColumnYPosition(tables[conn.toTable], conn.toColumn,
                                        options, tableWidths, tablePositions)
    IN  {k \in 1..16 :
            scoreSq(loopFromSide(k), loopToSide(k),
                    sidePoint(fromRect, loopFromSide(k), fromColumnY, options),
                    sidePoint(toRect, loopToSide(k), toColumnY, options))
            = SelectedScore(conn.points)}

\* C8 as stated: swapping the endpoints exchanges the sides and the anchors.
C8_SwapMirrors ==
    conn # NoConnection => Mirrors(Swapped, conn.points)

\* C8, amended: swapping the endpoints gives a pair of the same score, and
\* exchanges the sides and the anchors whenever one side pair alone reaches
\* the minimal score.
C8_SwapMirrorsUnlessTied ==
    conn # NoConnection =>
        /\ SelectedScore(Swapped) = SelectedScore(conn.points)
        /\ Cardinality(BestPairs) = 1 => Mirrors(Swapped, conn.points)

\* a query between two different tables with a single best pair whose two
\* sides differ, so that the swapped query has to pick the other order
C8_Witness ==
    /\ conn # NoConnection
    /\ conn.fromTable # conn.toTable
    /\ Cardinality(BestPairs) = 1
    /\ conn.points.fromSide # conn.points.toSide
    /\ Mirrors(Swapped, conn.points)

----------------------------------------------------------------------------
(* Routing strategies *)

\* the clearance test of isRouteClear applied to the route drawn for r
PassesClearance(r, route) ==
    isRouteClear(route, FromIndex(r), ToIndex(r),
                 tables, options, tableWidths, tablePositions)

\* C11: the route returned for a relationship is the first candidate, in the
\* order direct L-routes, margin route, later strategies, whose every segment
\* passes the clearance test against all other tables; in particular a
\* returned margin route passes that test.
C11_ReturnsFirstClearCandidate ==
    \A r \in DrawnPaths :
        LET route == svg.relationships[r].route
            direct == simpleRoutes(route[1], route[Len(route)])
        IN  /\ PassesClearance(r, route)
            /\ PassesClearance(r, direct[1]) => route = direct[1]
            /\ (~PassesClearance(r, direct[1]) /\ PassesClearance(r, direct[2]))
                   => route = direct[2]

----------------------------------------------------------------------------
(* Document order *)

\* C12: in the document generate returns, the draw instructions of every
\* relationship come before those of every table, the k-th instruction is
\* what drawRelationship gives for the k-th relationship of the list, and the
\* tables follow in the order of the input table list, whatever the routing
\* results are.
C12_RelationshipsBeforeTables ==
    svg.kind = "diagram" =>
        LET n == Len(relationships)
        IN  /\ Len(svg.document) = n + Len(tables)
            /\ \A k \in 1..n :
                   /\ svg.document[k].element = "relationship"
                   /\ svg.document[k].drawn =
                          drawRelationship(relationships[k], tables, options,
                                           tableWidths, tablePositions)
            /\ \A i \in DOMAIN tables :
                   /\ svg.document[n + i].element = "table"
                   /\ svg.document[n + i].drawn.name = tables[i].name

\* a drawn diagram of four tables whose relationships were drawn as two
\* different routed lines and a 'table not found' annotation
C12_Witness ==
    /\ svg.kind = "diagram"
    /\ Len(tables) = MaxTables
    /\ \E r, q, d \in DOMAIN relationships :
          /\ r \in DrawnPaths /\ q \in DrawnPaths
          /\ svg.relationships[r] # svg.relationships[q]
          /\ Dangling(d)

----------------------------------------------------------------------------
(* Perimeter fallback (SpecRoute) *)

\* C13: the route createSafePerimeterPath returns for the anchors the
\* connection point resolver gave in a placed layout has no segment that
\* meets the rectangle of a table other than the two endpoint tables.
C13_PerimeterAvoidsObstacles ==
    routed.by = "createSafePerimeterPath" =>
        /\ routed.result.kind = "route"
        /\ LET points == routed.result.points
           IN  \A k \in 1..(Len(points) - 1) :
                   \A o \in DOMAIN tables \ {conn.fromTable, conn.toTable} :
                       ~SegmentMeetsBox(points[k], points[k + 1], TableRect(o))

----------------------------------------------------------------------------
(* Canvas and grid (SpecLayout) *)

\* the greatest element of a non-empty set of numbers
Greatest(S) == CHOOSE v \in S : \A w \in S : w <= v

\* C14: after placement of a non-empty table list the canvas width is the
\* greatest x + width of a table plus canvasMargin, the canvas height is the
\* greatest y + height plus canvasMargin, and every table rectangle lies at
\* least canvasMargin inside the canvas on all four sides.
C14_CanvasEnclosesTables ==
    svg.kind = "diagram" =>
        LET right(i) == tablePositions[tables[i].name].x
                            + getTableWidth(tables[i], options, tableWidths)
            bottom(i) == tablePositions[tables[i].name].y
                             + getTableHeight(tables[i], options)
        IN  /\ svg.width = Greatest({right(i) : i \in DOMAIN tables}) + options.canvasMargin
            /\ svg.height = Greatest({bottom(i) : i \in DOMAIN tables}) + options.canvasMargin
            /\ \A i \in DOMAIN tables :
                   /\ tablePositions[tables[i].name].x >= options.canvasMargin
                   /\ tablePositions[tables[i].name].y >= options.canvasMargin
                   /\ right(i) <= svg.width - options.canvasMargin
                   /\ bottom(i) <= svg.height - options.canvasMargin

\* a placed layout of two rows in which the table reaching furthest right is
\* in the first row and the table reaching furthest down in the second
C14_Witness ==
    /\ svg.kind = "diagram"
    /\ \E i, j \in DOMAIN tables :
          /\ svg.tables[i].x + svg.tables[i].width + options.canvasMargin = svg.width
          /\ svg.tables[j].y + svg.tables[j].height + options.canvasMargin = svg.height
          /\ svg.tables[j].y > svg.tables[i].y

\* C15: with n tables and cols = ceil(sqrt(1.2 n)), the table at 0-based
\* input index i stands in row i \div cols at column i % cols: the first
\* table of every row is at x = tablePadding + canvasMargin, the tables of a
\* row share one y and follow each other to the right in input order, a later
\* row lies below an earlier one, and no row holds more than cols tables.
C15_GridByInputIndex ==
    svg.kind = "diagram" =>
        LET n == Len(tables)
            cols == CHOOSE c \in 1..(n + 1) : 5 * c * c >= 6 * n /\ 5 * (c - 1) * (c - 1) < 6 * n
            row(i) == (i - 1) \div cols
            column(i) == (i - 1) % cols
            pos(i) == tablePositions[tables[i].name]
        IN  /\ \A i \in 1..n :
                   /\ column(i) = 0 => pos(i).x = options.tablePadding + options.canvasMargin
                   /\ Cardinality({j \in 1..n : pos(j).y = pos(i).y}) <= cols
            /\ \A i, j \in 1..n :
                   /\ row(i) = row(j) => pos(i).y = pos(j).y
                   /\ (row(i) = row(j) /\ column(i) < column(j)) => pos(i).x < pos(j).x
                   /\ row(i) < row(j) => pos(i).y < pos(j).y

\* a placed layout of four tables: three in the first row and the fourth at
\* the start of the second row
C15_Witness ==
    /\ svg.kind = "diagram"
    /\ Len(tables) = 4
    /\ svg.tables[1].y = svg.tables[3].y
    /\ svg.tables[2].x < svg.tables[3].x
    /\ svg.tables[4].x = svg.tables[1].x
    /\ svg.tables[4].y > svg.tables[1].y

----------------------------------------------------------------------------
(* Connection points (SpecConn) *)

AllSides == {"left", "right", "top", "bottom"}

\* the point connectionMargin outside the middle of a table edge, at the
\* column's height on the left and right edges; half pixels
OutwardAnchor(i, side, columnY) ==
    LET rect == TableRect(i)
        margin == 2 * options.connectionMargin
    IN  CASE side = "left" -> [x |-> rect.x - margin, y |-> columnY]
          [] side = "right" -> [x |-> rect.x + rect.width + margin, y |-> columnY]
          [] side = "top" -> [x |-> rect.x + rect.width \div 2, y |-> rect.y - margin]
          [] side = "bottom" -> [x |-> rect.x + rect.width \div 2,
                                 y |-> rect.y + rect.height + margin]

FromColumnY ==
    getColumnYPosition(tables[conn.fromTable], conn.fromColumn,
                       options, tableWidths, tablePositions)

ToColumnY ==
    getColumnYPosition(tables[conn.toTable], conn.toColumn,
                       options, tableWidths, tablePositions)

\* 0.6, 0.8 and 1, times 5
StatedWeight(fromSide, toSide) ==
    IF <<fromSide, toSide>> \in {<<"right", "left">>, <<"left", "right">>} THEN 3
    ELSE IF {fromSide, toSide} \cap {"left", "right"} # {} THEN 4
    ELSE 5

\* the squared distance between the anchors of a side pair
StatedDistanceSq(fromSide, toSide) ==
    LET p == OutwardAnchor(conn.fromTable, fromSide, FromColumnY)
        q == OutwardAnchor(conn.toTable, toSide, ToColumnY)
    IN  (q.x - p.x) * (q.x - p.x) + (q.y - p.y) * (q.y - p.y)

\* (5 x weight x distance) squared
StatedScore(fromSide, toSide) ==
    StatedWeight(fromSide, toSide) * StatedWeight(fromSide, toSide)
        * StatedDistanceSq(fromSide, toSide)

\* the 16 side pairs, each with its score
StatedScores ==
    {[pair |-> pair, score |-> StatedScore(pair[1], pair[2])] : pair \in AllSides \X AllSides}

\* C16: findBestConnectionPoints returns anchors offset outward from the
\* table edges by connectionMargin, for a side pair whose score, Euclidean
\* distance times weight (0.6 for right-left and left-right, 0.8 for another
\* pair with a left or right side, 1 otherwise), is minimal among the 16
\* side pairs.
C16_MinimalWeightedDistance ==
    conn # NoConnection =>
        /\ conn.points.start = OutwardAnchor(conn.fromTable, conn.points.fromSide, FromColumnY)
        /\ conn.points.end = OutwardAnchor(conn.toTable, conn.points.toSide, ToColumnY)
        /\ Bind(StatedScores, LAMBDA scored :
                    \E selected \in scored :
                        /\ selected.pair = <<conn.points.fromSide, conn.points.toSide>>
                        /\ \A other \in scored : selected.score <= other.score)

\* a query between two different tables in which the weights decide: the
\* selected pair is not the pair of least distance
C16_Witness ==
    /\ conn # NoConnection
    /\ conn.fromTable # conn.toTable
    /\ \E s \in AllSides, t \in AllSides :
          StatedDistanceSq(s, t) < StatedDistanceSq(conn.points.fromSide, conn.points.toSide)

\* the side pairs whose score is the lowest of the 16
TiedPairs ==
    Bind(StatedScores, LAMBDA scored :
             {best.pair : best \in {one \in scored :
                                       \A other \in scored : one.score <= other.score}})

\* the place of a side pair in nested loops over the sides in the given
\* order, the source side varying slowest
PlaceIn(order, pair) ==
    LET rank(side) == CHOOSE k \in DOMAIN order : order[k] = side
    IN  4 * (rank(pair[1]) - 1) + rank(pair[2])

\* the selected pair is the first of the tied pairs in that order
SelectsFirstIn(order) ==
    LET selected == <<conn.points.fromSide, conn.points.toSide>>
    IN  Bind(TiedPairs, LAMBDA tied :
                 /\ selected \in tied
                 /\ \A pair \in tied : PlaceIn(order, selected) <= PlaceIn(order, pair))

\* C17 as stated: among the side pairs that tie for the lowest score the
\* first in the order left, right, top, bottom is chosen.
C17_FirstInLeftRightOrder ==
    conn # NoConnection => SelectsFirstIn(<<"left", "right", "top", "bottom">>)

\* C17, amended: among the side pairs that tie for the lowest score the first
\* in the order right, left, top, bottom (source side varying slowest, target
\* side fastest) is chosen.
C17_FirstInRightLeftOrder ==
    conn # NoConnection => SelectsFirstIn(<<"right", "left", "top", "bottom">>)

\* a query in which (right, left) and (left, right) tie for the lowest score
C17_Witness ==
    /\ conn # NoConnection
    /\ conn.fromTable # conn.toTable
    /\ {<<"right", "left">>, <<"left", "right">>} \subseteq TiedPairs

\* tied side pairs either have the same weight and the same squared distance
\* or all have distance 0, so their scores are equal as floating-point
\* numbers too
TiesAreExact ==
    conn # NoConnection =>
        Bind(TiedPairs, LAMBDA tied :
                 \A p \in tied, q \in tied :
                     \/ /\ StatedWeight(p[1], p[2]) = StatedWeight(q[1], q[2])
                        /\ StatedDistanceSq(p[1], p[2]) = StatedDistanceSq(q[1], q[2])
                     \/ /\ StatedDistanceSq(p[1], p[2]) = 0
                        /\ StatedDistanceSq(q[1], q[2]) = 0)

\* the anchor moved back toward its table by connectionMargin
MovedBack(anchor, side) ==
    LET margin == 2 * options.connectionMargin
    IN  CASE side = "right" -> [x |-> anchor.x - margin, y |-> anchor.y]
          [] side = "left" -> [x |-> anchor.x + margin, y |-> anchor.y]
          [] side = "top" -> [x |-> anchor.x, y |-> anchor.y + margin]
          [] side = "bottom" -> [x |-> anchor.x, y |-> anchor.y - margin]

\* the point lies on the given side of the boundary of table i
OnSide(point, i, side) ==
    LET rect == TableRect(i)
    IN  /\ rect.x <= point.x /\ point.x <= rect.x + rect.width
        /\ rect.y <= point.y /\ point.y <= rect.y + rect.height
        /\ CASE side = "right" -> point.x = rect.x + rect.width
             [] side = "left" -> point.x = rect.x
             [] side = "top" -> point.y = rect.y
             [] side = "bottom" -> point.y = rect.y + rect.height

\* C18: whichever side is chosen, tableStart and tableEnd lie on the boundary
\* of their table's rectangle on that side and equal the routing anchors
\* start and end moved back toward the table by exactly connectionMargin.
C18_EdgePointsOnChosenSide ==
    conn # NoConnection =>
        /\ OnSide(conn.points.tableStart, conn.fromTable, conn.points.fromSide)
        /\ OnSide(conn.points.tableEnd, conn.toTable, conn.points.toSide)
        /\ conn.points.tableStart = MovedBack(conn.points.start, conn.points.fromSide)
        /\ conn.points.tableEnd = MovedBack(conn.points.end, conn.points.toSide)

\* the 0-based index of the named column among the first maxColumns columns
\* of table i, or -1
VisibleIndex(i, columnName) ==
    LET columns == tables[i].columns
        shown == 1..Min(Len(columns), options.maxColumns)
        hits == {k \in shown : columns[k].name = columnName}
    IN  IF hits = {} THEN -1 ELSE (CHOOSE k \in hits : \A other \in hits : k <= other) - 1

\* the height stated for a column of table i, in half pixels: the middle of
\* its row plus the text offset of 9, or the centre of the rectangle
StatedColumnY(i, columnName) ==
    LET y == tablePositions[tables[i].name].y
        index == VisibleIndex(i, columnName)
    IN  IF index = -1
        THEN 2 * y + svg.tables[i].height
        ELSE 2 * (y + options.tableHeaderHeight + index * options.columnHeight)
                 + options.columnHeight + 2 * 9

\* C19: getColumnYPosition(table, column) is rect.y + tableHeaderHeight
\* + i x columnHeight + columnHeight / 2 + 9, with i the index of the column
\* among the first maxColumns columns, and the vertical centre of the table's
\* rectangle when the column is not among them; this is the height
\* findBestConnectionPoints stores in tableStart and tableEnd.
C19_ColumnRowHeight ==
    conn # NoConnection =>
        /\ FromColumnY = StatedColumnY(conn.fromTable, conn.fromColumn)
        /\ ToColumnY = StatedColumnY(conn.toTable, conn.toColumn)
        /\ conn.points.tableStart.y = StatedColumnY(conn.fromTable, conn.fromColumn)
        /\ conn.points.tableEnd.y = StatedColumnY(conn.toTable, conn.toColumn)

\* a query from the second row of one table to a column of another table
\* that exists but is cut off by maxColumns
C19_Witness ==
    /\ conn # NoConnection
    /\ VisibleIndex(conn.fromTable, conn.fromColumn) = 1
    /\ VisibleIndex(conn.toTable, conn.toColumn) = -1
    /\ \E k \in DOMAIN tables[conn.toTable].columns :
          tables[conn.toTable].columns[k].name = conn.toColumn

----------------------------------------------------------------------------
(* Advances of the placement loop (SpecLayout) *)

\* the number of grid columns for n tables
StatedCols(n) == CHOOSE c \in 1..(n + 1) : 5 * c * c >= 6 * n /\ 5 * (c - 1) * (c - 1) < 6 * n

\* the input indices of the tables of the row of table i up to table i
RowUpTo(i) ==
    LET cols == StatedCols(Len(tables))
    IN  {j \in 1..i : (j - 1) \div cols = (i - 1) \div cols}

\* the input indices of the whole row of table i
RowOf(i) ==
    LET cols == StatedCols(Len(tables))
    IN  {j \in DOMAIN tables : (j - 1) \div cols = (i - 1) \div cols}

\* the step from the y of the row of table i to the y of the next row is the
\* greatest table height of the row plus tablePadding
RowAdvance(i) ==
    (i + 1 \in DOMAIN tables /\ i + 1 \notin RowOf(i)) =>
        svg.tables[i + 1].y - svg.tables[i].y
            = Greatest({svg.tables[j].height : j \in RowOf(i)}) + options.tablePadding

\* C20 as stated: the vertical advance from one row to the next is the
\* greatest table height of the finished row plus tablePadding, and the
\* horizontal advance from a table to the next one in its row is the greatest
\* table width seen so far in that row plus tablePadding.
C20_AdvanceByWidestSoFar ==
    svg.kind = "diagram" =>
        \A i \in DOMAIN tables :
            /\ RowAdvance(i)
            /\ (i + 1 \in RowOf(i)) =>
                   svg.tables[i + 1].x - svg.tables[i].x
                       = Greatest({svg.tables[j].width : j \in RowUpTo(i)})
                             + options.tablePadding

\* C20, amended: the vertical advance is as stated, and the horizontal
\* advance from a table to the next one in its row is that table's own width
\* plus tablePadding.
C20_AdvanceByOwnWidth ==
    svg.kind = "diagram" =>
        \A i \in DOMAIN tables :
            /\ RowAdvance(i)
            /\ (i + 1 \in RowOf(i)) =>
                   svg.tables[i + 1].x - svg.tables[i].x
                       = svg.tables[i].width + options.tablePadding

\* a placed layout whose first row holds a table, a narrower one and a third
\* one, is not led by its tallest table, and is followed by a second row
C20_Witness ==
    /\ svg.kind = "diagram"
    /\ {2, 3} \subseteq RowOf(1)
    /\ 4 \in DOMAIN tables
    /\ svg.tables[2].width < svg.tables[1].width
    /\ svg.tables[1].height < svg.tables[2].height

----------------------------------------------------------------------------
(* Margin route (SpecRoute) *)

\* the two direct L-routes between the anchors of the query are both blocked
BothDirectBlocked ==
    LET direct == simpleRoutes(conn.points.start, conn.points.end)
    IN  \A k \in 1..2 :
            ~isRouteClear(direct[k], conn.fromTable, conn.toTable,
                          tables, options, tableWidths, tablePositions)

\* the halves of the canvas an anchor (half pixels) lies in; the canvas of
\* svg.width x svg.height pixels has its centre at half-pixel (width, height)
InLeftHalf(p) == p.x < svg.width

InTopHalf(p) == p.y < svg.height

\* distance of a band from its canvas edge, in half pixels
BandOffset(spacing) == 2 * (options.canvasMargin - options.safeZoneOffset + spacing)

\* the band the margin route is stated to take
StatedBand ==
    LET start == conn.points.start
        end == conn.points.end
    IN  IF InLeftHalf(start) # InLeftHalf(end)
        THEN IF InTopHalf(start) THEN "top" ELSE "bottom"
        ELSE IF InTopHalf(start) # InTopHalf(end)
        THEN IF InLeftHalf(start) THEN "left" ELSE "right"
        ELSE "top"

\* the 4-waypoint detour through a band
StatedDetour(band) ==
    LET start == conn.points.start
        end == conn.points.end
        bandY == IF band = "top" THEN BandOffset(options.routingSpacingTop)
                 ELSE 2 * svg.height - BandOffset(options.routingSpacingTop)
        bandX == IF band = "left" THEN BandOffset(options.routingSpacingSide)
                 ELSE 2 * svg.width - BandOffset(options.routingSpacingSide)
    IN  IF band \in {"top", "bottom"}
        THEN <<start, [x |-> start.x, y |-> bandY], [x |-> end.x, y |-> bandY], end>>
        ELSE <<start, [x |-> bandX, y |-> start.y], [x |-> bandX, y |-> end.y], end>>

\* C21: when both direct L-routes are blocked the route is the 4-waypoint
\* detour start, band point, band point, end through the top or bottom band
\* when the anchors lie in opposite left/right halves of the canvas (top when
\* the start is in the top half), else through the left or right band when
\* they lie in opposite top/bottom halves (left when the start is in the left
\* half), else through the top band; the band lies canvasMargin -
\* safeZoneOffset plus the routing spacing from its canvas edge.
C21_MarginRouteBand ==
    (routed.by = "createSimpleRoute" /\ BothDirectBlocked) =>
        routed.result.points = StatedDetour(StatedBand)

\* a margin route through the given band was returned
DetourTaken(band) ==
    /\ routed.by = "createSimpleRoute"
    /\ BothDirectBlocked
    /\ StatedBand = band
    /\ conn.fromTable # conn.toTable

C21_Witness == DetourTaken("bottom")

----------------------------------------------------------------------------
(* One pass of simplifyPath (SpecSimplify) *)

\* the normalized dot product of the directions into and out of interior
\* point i of the input exceeds 0.95 = 19/20: both directions have a length,
\* d > 0 and d^2 / (n1 n2) > 361/400
NearlyStraightAt(i) ==
    LET ax == path[i].x - path[i - 1].x
        ay == path[i].y - path[i - 1].y
        bx == path[i + 1].x - path[i].x
        by == path[i + 1].y - path[i].y
        d == ax * bx + ay * by
    IN  /\ ax * ax + ay * ay > 0
        /\ bx * bx + by * by > 0
        /\ d > 0
        /\ 400 * d * d > 361 * (ax * ax + ay * ay) * (bx * bx + by * by)

\* the indices of the input that are stated to remain
StatedKept == {i \in DOMAIN path : i = 1 \/ i = Len(path) \/ ~NearlyStraightAt(i)}

\* the points of the input at the given indices, in input order
SubsequenceAt(indices) ==
    [k \in 1..Cardinality(indices) |->
        path[CHOOSE i \in indices : Cardinality({j \in indices : j < i}) = k - 1]]

\* C22: simplifyPath returns the subsequence of its input made of the first
\* point, the last point and every interior point whose incoming and
\* outgoing directions (to its neighbours in the input) have a normalized
\* dot product that does not exceed 0.95; a path of 2 or fewer points is
\* returned unchanged.
C22_DropsNearlyStraightPoints ==
    simplified.done =>
        /\ simplified.points = SubsequenceAt(StatedKept)
        /\ Len(path) <= 2 => simplified.points = path

\* a pass over four points that drops one interior point and keeps the other
\* although the path turns there by less than a right angle
C22_Witness ==
    /\ simplified.done
    /\ Len(path) = 4
    /\ Len(simplified.points) = 3
    /\ \E i \in 2..3 :
          /\ ~NearlyStraightAt(i)
          /\ (path[i].x - path[i - 1].x) * (path[i + 1].x - path[i].x)
                 + (path[i].y - path[i - 1].y) * (path[i + 1].y - path[i].y) > 0

(***************************************************************************)
(* C23: the cell path of findPathWithAStar and its recorded costs          *)
(***************************************************************************)

\* the cells of the predecessor chain from the start cell to cell, in order
RECURSIVE chainCells(_, _, _, _)
chainCells(cameFrom, cell, fuel, cells) ==
    IF cell \notin DOMAIN cameFrom \/ fuel = 0 THEN <<cell>> \o cells
    ELSE chainCells(cameFrom, cameFrom[cell], fuel - 1, <<cell>> \o cells)

\* the sum of the step costs along a sequence of cells: 1 for an axis-aligned
\* move, sqrt(2) for a diagonal one
RECURSIVE stepCosts(_, _, _)
stepCosts(cells, k, sum) ==
    IF k >= Len(cells) THEN sum
    ELSE stepCosts(cells, k + 1,
                   addMoveCost(sum, cells[k].x # cells[k + 1].x /\ cells[k].y # cells[k + 1].y))

ChainCost(cell) ==
    stepCosts(chainCells(astar.cameFrom, cell, Cardinality(DOMAIN astar.cameFrom), <<>>),
              1, Finite(0, 0))

\* the least of a non-empty set of scores
LeastScore(scores) == CHOOSE s \in scores : \A t \in scores : ~scoreLess(t, s)

\* a cell that a path may pass: the start cell, or a cell in bounds and unblocked
Usable(cell) ==
    /\ cell.x >= 0 /\ cell.x < astar.gridWidth
    /\ cell.y >= 0 /\ cell.y < astar.gridHeight
    /\ cell = astar.startGrid \/ ~isBlocked(cell, astar.obstacles)

\* the cells of the grid, row by row, as 1..gridWidth * gridHeight
CellAt(i) == [x |-> (i - 1) % astar.gridWidth, y |-> (i - 1) \div astar.gridWidth]

IndexOfCell(cell) == cell.y * astar.gridWidth + cell.x + 1

\* one round of relaxation: a usable cell takes the least of its cost and its
\* neighbours' costs plus the step
RelaxCell(costs, cell) ==
    IF ~Usable(cell) THEN Infinity
    ELSE LeastScore({costs[IndexOfCell(cell)]} \cup
             {addMoveCost(costs[IndexOfCell([x |-> cell.x + neighbourSteps[k].dx,
                                             y |-> cell.y + neighbourSteps[k].dy])],
                          neighbourSteps[k].dx # 0 /\ neighbourSteps[k].dy # 0) :
                 k \in {j \in 1..8 :
                           /\ cell.x + neighbourSteps[j].dx >= 0
                           /\ cell.x + neighbourSteps[j].dx < astar.gridWidth
                           /\ cell.y + neighbourSteps[j].dy >= 0
                           /\ cell.y + neighbourSteps[j].dy < astar.gridHeight}})

RECURSIVE RelaxAll(_, _)
RelaxAll(costs, fuel) ==
    Bind([i \in DOMAIN costs |-> RelaxCell(costs, CellAt(i))] @@ <<>>, LAMBDA relaxed :
         IF relaxed = costs \/ fuel = 0 THEN costs ELSE RelaxAll(relaxed, fuel - 1))

\* the least cost of an 8-connected path of usable cells from the start cell
\* to each cell
LeastCosts ==
    RelaxAll([i \in 1..(astar.gridWidth * astar.gridHeight) |->
                 IF CellAt(i) = astar.startGrid THEN Finite(0, 0) ELSE Infinity] @@ <<>>,
             astar.gridWidth * astar.gridHeight)

LeastCost(cell) == LeastCosts[IndexOfCell(cell)]

\* the search reached the end cell and reconstructPath returned
SearchFound == astar.status = "found" /\ astar.result.kind = "route"

\* C23: when findPathWithAStar reaches the end cell, the cost recorded for
\* each reached cell is the sum of the step costs (1 axis-aligned, sqrt(2)
\* diagonal) along its predecessor chain from the start cell, and the
\* reconstructed cell path is a least-cost 8-connected path of unblocked
\* in-bounds cells from the start cell to the end cell.
C23_LeastCostPath ==
    SearchFound =>
        /\ \A cell \in DOMAIN astar.gScore : astar.gScore[cell] = ChainCost(cell)
        /\ ChainCost(astar.endGrid) = LeastCost(astar.endGrid)

(***************************************************************************)
(* C24: the path that reconstructPath builds                               *)
(***************************************************************************)

\* the grid cell whose real coordinates are the point, if there is one
IsCellPoint(point, cell) ==
    /\ point.x = HalfPx(cell.x * gridSize)
    /\ point.y = HalfPx(cell.y * gridSize)

InBoundsCells ==
    {[x |-> x, y |-> y] : x \in 0..(astar.gridWidth - 1), y \in 0..(astar.gridHeight - 1)}

\* the point lies inside the rectangle of some table expanded by the buffer
InsideExpandedTable(point) ==
    \E i \in DOMAIN tables :
        LET rect == getTableRect(tables[i], options, tableWidths, tablePositions)
        IN  /\ rect # NoRect
            /\ point.x >= rect.x - HalfPx(buffer) /\ point.x <= rect.right + HalfPx(buffer)
            /\ point.y >= rect.y - HalfPx(buffer) /\ point.y <= rect.bottom + HalfPx(buffer)

EightNeighbours(p, q) ==
    /\ p # q
    /\ Abs(p.x - q.x) \in {0, HalfPx(gridSize)}
    /\ Abs(p.y - q.y) \in {0, HalfPx(gridSize)}

\* C24: a path returned through reconstructPath starts with the exact start
\* point and ends with the exact end point, before and after simplifyPath;
\* before simplification its interior points are the real coordinates (cell
\* index x 20) of in-bounds grid cells, none inside a table rectangle expanded
\* by the buffer, and consecutive cells are 8-neighbours of each other.
C24_ReconstructedPath ==
    SearchFound =>
        LET before == astar.result.reconstructed
            after == astar.result.points
        IN  /\ Len(before) >= 2 /\ Len(after) >= 2
            /\ before[1] = astar.start /\ before[Len(before)] = astar.end
            /\ after[1] = astar.start /\ after[Len(after)] = astar.end
            /\ \A k \in 2..(Len(before) - 1) :
                   /\ \E cell \in InBoundsCells : IsCellPoint(before[k], cell)
                   /\ ~InsideExpandedTable(before[k])
            /\ \A k \in 2..(Len(before) - 2) : EightNeighbours(before[k], before[k + 1])

\* a path with a bend among at least four interior cells next to a table
C24_Witness ==
    /\ SearchFound
    /\ Len(astar.result.reconstructed) >= 6
    /\ Len(astar.result.points) \in 4..(Len(astar.result.reconstructed) - 1)
    /\ \E k \in 2..(Len(astar.result.reconstructed) - 1) :
           InsideExpandedTable([x |-> astar.result.reconstructed[k].x + HalfPx(gridSize),
                                y |-> astar.result.reconstructed[k].y])

(***************************************************************************)
(* C25: termination of findPathWithAStar                                   *)
(***************************************************************************)

\* an iteration of the loop that does not return expands a cell that was
\* never expanded before
ExpandsNewCell ==
    (astar.status = "running" /\ astar'.status = "running" /\ astar' # astar) =>
        /\ astar'.current \notin astar.closedSet
        /\ astar'.closedSet = astar.closedSet \cup {astar'.current}

\* the call has returned: the end cell was reached, or the open list was empty
SearchReturned ==
    \/ astar.status = "found" /\ astar.result.kind = "route"
    \/ /\ astar.status = "fallback"
       /\ astar.result.points = fallbackSimpleRoute(astar.start, astar.end, astar.bounds)

\* the chain from the end cell visits no cell twice and stops at the start cell
ChainEndsAtStart ==
    LET cells == chainCells(astar.cameFrom, astar.endGrid,
                            Cardinality(DOMAIN astar.cameFrom), <<>>)
    IN  /\ cells[1] = astar.startGrid
        /\ cells[Len(cells)] = astar.endGrid
        /\ \A j, k \in DOMAIN cells : j # k => cells[j] # cells[k]

\* C25: findPathWithAStar terminates: each grid cell is expanded at most once,
\* so a running search eventually returns, with the end cell reached or with
\* the fallback once the open list is empty; and the predecessor chain that
\* reconstructPath follows is acyclic and ends at the start cell.
C25_SearchTerminates ==
    /\ [][ExpandsNewCell]_vars
    /\ (astar.status = "running") ~> SearchReturned
    /\ [](astar.status = "found" => astar.result.kind = "route" /\ ChainEndsAtStart)

\* the open list ran empty after at least a hundred cells were expanded
C25_Witness ==
    /\ astar.status = "fallback"
    /\ Cardinality(astar.closedSet) >= 100

(***************************************************************************)
(* C26: the route returned when the grid search finds no path              *)
(***************************************************************************)

\* a point given in half pixels, in twentieths of a pixel
Fine(point) == [x |-> 10 * point.x, y |-> 10 * point.y]

\* the search ended without reaching the end cell
SearchFailed == astar.status = "fallback"

Interior(waypoints) == 2..(Len(waypoints) - 1)

\* both segments at interior waypoint i have nonzero length
BothNonzero(waypoints, i) ==
    waypoints[i - 1] # waypoints[i] /\ waypoints[i] # waypoints[i + 1]

\* the index of the first command written for waypoint i: one command for the
\* first waypoint, and one or two for each interior waypoint before i
CommandOf(waypoints, i) ==
    i + Cardinality({j \in Interior(waypoints) : j < i /\ BothNonzero(waypoints, j)})

\* four times the square of min(15, len1 / 2, len2 / 2)
StatedRadiusSq4(len1Sq, len2Sq) ==
    IF len1Sq >= 900 /\ len2Sq >= 900 THEN 900
    ELSE IF len1Sq <= len2Sq THEN len1Sq ELSE len2Sq

\* C27: for every interior waypoint whose two adjacent segments both have
\* nonzero length, createSmoothPath uses the corner radius
\* min(15, len1 / 2, len2 / 2): the curve is entered at that distance from the
\* corner on the incoming segment and left at that distance on the outgoing
\* segment, each no farther from the corner than the segment's midpoint; an
\* interior waypoint with a zero-length adjacent segment is joined by a plain
\* line-to with no curve; a list of fewer than 2 points renders nothing.
C27_CornerRadius ==
    pathData.done =>
        LET waypoints == pathData.waypoints
            commands == pathData.commands
        IN  IF Len(waypoints) < 2 THEN commands = <<>>
            ELSE /\ commands[1] = [op |-> "M", to |-> exactPoint(waypoints[1])]
                 /\ \A i \in Interior(waypoints) :
                        LET first == commands[CommandOf(waypoints, i)]
                            second == commands[CommandOf(waypoints, i) + 1]
                            len1Sq == lengthSq(waypoints[i - 1], waypoints[i])
                            len2Sq == lengthSq(waypoints[i], waypoints[i + 1])
                        IN  IF BothNonzero(waypoints, i)
                            THEN /\ first.op = "L" /\ second.op = "Q"
                                 /\ second.control = exactPoint(waypoints[i])
                                 /\ first.to.at = waypoints[i]
                                 /\ first.to.towards = waypoints[i - 1]
                                 /\ second.to.at = waypoints[i]
                                 /\ second.to.towards = waypoints[i + 1]
                                 /\ first.to.turn = 0 /\ second.to.turn = 0
                                 /\ first.to.distSq4 = StatedRadiusSq4(len1Sq, len2Sq)
                                 /\ second.to.distSq4 = StatedRadiusSq4(len1Sq, len2Sq)
                                 /\ first.to.distSq4 <= len1Sq
                                 /\ second.to.distSq4 <= len2Sq
                            ELSE /\ first = [op |-> "L", to |-> exactPoint(waypoints[i])]
                                 /\ second.op # "Q"

\* a corner of radius 15 between two long segments and a corner cut to half
\* of a short segment, on one path
C27_Witness ==
    /\ pathData.done
    /\ \E i \in Interior(pathData.waypoints) :
           /\ BothNonzero(pathData.waypoints, i)
           /\ pathData.commands[CommandOf(pathData.waypoints, i)].to.distSq4 = 900
           /\ lengthSq(pathData.waypoints[i - 1], pathData.waypoints[i]) > 900
    /\ \E i \in Interior(pathData.waypoints) :
           /\ BothNonzero(pathData.waypoints, i)
           /\ pathData.commands[CommandOf(pathData.waypoints, i)].to.distSq4 < 900

(***************************************************************************)
(* C28: routing a relationship changes nothing the routes depend on        *)
(***************************************************************************)

\* a step that routes a relationship
RoutesRelationship == routed' # routed

LeftOf(a, b) == a.right + HalfPx(options.tablePadding) <= b.x

Above(a, b) == a.bottom + HalfPx(options.tablePadding) <= b.y

Overlap(a, b) == a.x < b.right /\ b.x < a.right /\ a.y < b.bottom /\ b.y < a.bottom

\* C29: after calculatePositions on tables with pairwise distinct names, no
\* two table rectangles overlap: two tables of the same row are separated
\* horizontally by at least tablePadding, and two tables of different rows are
\* separated vertically by at least tablePadding.
C29_TablesDoNotOverlap ==
    (svg.kind = "diagram" /\ DistinctNames(tables)) =>
        \A i, j \in DOMAIN tables :
            i < j =>
                /\ TableRect(i) # NoRect /\ TableRect(j) # NoRect
                /\ ~Overlap(TableRect(i), TableRect(j))
                /\ IF j \in RowOf(i) THEN LeftOf(TableRect(i), TableRect(j))
                   ELSE Above(TableRect(i), TableRect(j))

\* a second row under a first row whose tallest table is not its last one
C29_Witness ==
    /\ svg.kind = "diagram"
    /\ 2 \in RowOf(1)
    /\ \E j \in DOMAIN tables : j \notin RowOf(1)
    /\ \E i \in RowOf(1) :
           TableRect(i).height > TableRect(Greatest(RowOf(1))).height

(***************************************************************************)
(* C30: the shape of the routes of createSimpleRoute (SpecRoute)           *)
(***************************************************************************)

AxisAligned(p, q) == p.x = q.x \/ p.y = q.y

\* C30: every route returned by createSimpleRoute begins at the start anchor
\* and ends at the end anchor, has exactly 3 waypoints (direct L-route) or
\* exactly 4 waypoints (margin route, when both L-routes are blocked), and
\* consists only of horizontal and vertical segments.
C30_SimpleRouteShape ==
    routed.by = "createSimpleRoute" =>
        LET route == routed.result.points
        IN  /\ routed.result.kind = "route"
            /\ route[1] = conn.points.start
            /\ route[Len(route)] = conn.points.end
            /\ Len(route) = IF BothDirectBlocked THEN 4 ELSE 3
            /\ \A k \in 1..(Len(route) - 1) : AxisAligned(route[k], route[k + 1])

\* the vertical-first L-route between anchors that differ in x and in y, taken
\* because the horizontal-first one is blocked
C30_Witness ==
    /\ routed.by = "createSimpleRoute"
    /\ Len(routed.result.points) = 3
    /\ conn.points.start.x # conn.points.end.x
    /\ conn.points.start.y # conn.points.end.y
    /\ routed.result.points[2] = [x |-> conn.points.start.x, y |-> conn.points.end.y]

====
